---- MODULE Spec2Model ----
(***************************************************************************)
(* State-machine model of the WireGuard control plane (src/app).           *)
(*                                                                         *)
(* Planes: the user registry (MySQL table users), the tunnel               *)
(* configuration file wg0.conf with its .conf.bak sibling, the kernel peer *)
(* table of interface wg0, and the VPN_ACL filter chain.                   *)
(*                                                                         *)
(* An address 10.50.0.i is modelled by its host index i; a key pair by a   *)
(* positive integer k (private key k derives public key k).                *)
(***************************************************************************)
EXTENDS Integers, Sequences, FiniteSets, TLC

\* ------------------------------------------------------------------ bounds
\* Number of key pairs `wg genkey` hands out in one behaviour.
MaxKeys == 1
\* Number of tool calls and registry writes that fail in one behaviour.
MaxFaults == 1
\* Number of create requests that are in flight together in SpecCreates.
MaxRequests == 2
\* Number of calls of the configuration store in flight together in SpecStore.
MaxCallers == 2
\* Number of poller ticks that broadcast a frame in SpecFrames.
MaxTicks == 2
\* Length of the VPN_ACL chain: a handler that would make it longer is not run.
MaxRules == 11
\* Number of times the global rules are installed into tables that are not flushed.
MaxInstalls == 3
\* Number of times the interface is brought down and up in one behaviour.
MaxResets == 1

\* ------------------------------------------------------- program constants
VPN_IP_START == 3
VPN_IP_END == 254

Handles == {"alice", "bob"}
Profiles == {"full", "internet-only", "intranet-only"}
PRIVATE_NETWORKS == <<"10.0.0.0/8", "172.16.0.0/12", "192.168.0.0/16">>

\* private_key column holding NULL (a row that predates the column).
NoKey == 0
\* A key the registry never issued: a peer injected into the kernel by hand.
ForeignKey == MaxKeys + 1
\* The key of a row that predates the private_key column.
LegacyKey == MaxKeys + 2
NoComment == "-"
NoIP == 0
NoUser == [username |-> "-"]

\* --------------------------------------------------------------- variables
VARIABLES
    users,      \* registry rows, in insertion (id) order
    conf,       \* wg0.conf: the [Peer] sections in file order
    iface,      \* wg0.conf: its lines before the first [Peer] section
    kernel,     \* kernel peer table: public key -> allowed host index
    chain,      \* the rules of chain VPN_ACL, in chain order
    netfilter,  \* the rules of the built-in chains, each in chain order
    nextKey,    \* next key pair `wg genkey` returns
    disk,       \* SpecStore: wg0.conf.bak, and the inode the path wg0.conf names
    faults,     \* failed tool calls and registry writes so far
    ret,        \* the last call that returned, and how
    snap,       \* the planes as they were before the call a property compares
    \* telemetry persistence (stats.py), for the one peer of SpecStats
    transfer,         \* kernel transfer counters of the peer: [rx, tx]
    resets,           \* times the kernel counters have started again at zero
    metrics_cache,    \* wg._metrics_cache: public key -> last dumped entry
    last_stats,       \* stats._last_stats: public key -> [rx, tx]
    active_sessions,  \* stats._active_sessions: public key -> session id
    totals,           \* committed users.total_rx, users.total_tx of the peer
    sessions,         \* committed rows of table sessions: id -> row
    nextSid,          \* auto-increment counter of table sessions
    pass,             \* the persistence passes in flight, by task
    started,          \* persistence passes started so far
    delivered,        \* SpecFrames: the last frame sent to the observer
    active_connections, \* SpecPoller: manager.active_connections, in list order
    sockets,          \* SpecPoller: each websocket, as its client has it
    poller,           \* SpecPoller: where broadcast_metrics is in its loop
    call              \* SpecSteps: the lifecycle call in flight for each handle

lifecycleVars == <<users, conf, iface, kernel, chain, netfilter, nextKey, disk, call>>
pollerVars == <<active_connections, sockets, poller>>
statsVars == <<transfer, resets, metrics_cache, last_stats, active_sessions, totals,
               sessions, nextSid, pass, started, delivered, pollerVars>>
vars == <<lifecycleVars, faults, ret, snap, statsVars>>

\* ------------------------------------------------------------ registry
\* A row of table users with the columns the planes are derived from; status
\* and acl_profile take their column defaults.
Row(h, k, pk, a) ==
    [username |-> h, public_key |-> k, private_key |-> pk, assigned_ip |-> a,
     status |-> "active", acl_profile |-> "full"]

\* create_user with the acl_profile it is given.
create_user(h, k, pk, a, p) == [Row(h, k, pk, a) EXCEPT !.acl_profile = p]

Reverse(s) == [i \in 1..Len(s) |-> s[Len(s) + 1 - i]]

\* get_all_users: ORDER BY created_at DESC.
get_all_users(us) == Reverse(us)

get_user_by_username(us, h) ==
    IF \E i \in DOMAIN us : us[i].username = h
    THEN us[CHOOSE i \in DOMAIN us : us[i].username = h]
    ELSE NoUser

get_used_ips(us) == {us[i].assigned_ip : i \in DOMAIN us}

\* The UNIQUE columns of table users.
UniqueOk(us, r) ==
    \A i \in DOMAIN us :
        /\ us[i].username # r.username
        /\ us[i].public_key # r.public_key
        /\ us[i].assigned_ip # r.assigned_ip

update_user_status(us, h, st) ==
    [i \in DOMAIN us |-> IF us[i].username = h THEN [us[i] EXCEPT !.status = st] ELSE us[i]]

\* The update of the keys with the private key left out.
UpdateKeys_public_only(us, h, k) ==
    [i \in DOMAIN us |->
        IF us[i].username = h THEN [us[i] EXCEPT !.public_key = k] ELSE us[i]]

UpdateKeys(us, h, k) ==
    [i \in DOMAIN us |->
        IF us[i].username = h
        THEN [us[i] EXCEPT !.public_key = k, !.private_key = k]
        ELSE us[i]]

delete_user(us, h) == SelectSeq(us, LAMBDA r : r.username # h)

ActiveUsers(us) == SelectSeq(us, LAMBDA r : r.status = "active")
ActiveKeys(us) == {us[i].public_key : i \in {j \in DOMAIN us : us[j].status = "active"}}

\* ------------------------------------------------------------ allocator
\* allocate_ip with the scan started one address early.
allocate_ip_from_two(used) ==
    LET free == {i \in (VPN_IP_START - 1)..VPN_IP_END : i \notin used}
    IN IF free = {} THEN NoIP ELSE CHOOSE i \in free : \A j \in free : i <= j

\* allocate_ip with the scan stopped one address early.
allocate_ip_below_end(used) ==
    LET free == {i \in VPN_IP_START..(VPN_IP_END - 1) : i \notin used}
    IN IF free = {} THEN NoIP ELSE CHOOSE i \in free : \A j \in free : i <= j

allocate_ip(used) ==
    LET free == {i \in VPN_IP_START..VPN_IP_END : i \notin used}
    IN IF free = {} THEN NoIP
       ELSE CHOOSE i \in free : \A j \in free : i <= j

\* ------------------------------------------------------------ kernel
Section(k, a, c) == [key |-> k, ip |-> a, comment |-> c]

ConfKeys(c) == {c[i].key : i \in DOMAIN c}

\* `wg syncconf`: the peer table becomes the file's peers; an allowed address
\* that two sections carry ends up with the later one.
SyncConf(c) ==
    [k \in ConfKeys(c) |->
        LET i == CHOOSE n \in DOMAIN c : c[n].key = k
        IN IF \E j \in DOMAIN c : j > i /\ c[j].ip = c[i].ip THEN NoIP ELSE c[i].ip]

\* `wg set wg0 peer k remove`
KernelRemove(kn, k) == [x \in DOMAIN kn \ {k} |-> kn[x]]

\* `wg set wg0 peer k allowed-ips a/32`
KernelSet(kn, k, a) ==
    [x \in DOMAIN kn \cup {k} |->
        IF x = k THEN a ELSE IF kn[x] = a THEN NoIP ELSE kn[x]]

\* ------------------------------------------------------- config file head
\* The head of wg0.conf is the sequence of its lines before the first [Peer]
\* section; "" is a blank line.
NoHead == <<>>
PlainHead == <<"[Interface]", "ListenPort = 51820">>

\* str.strip() of a text of whole lines.
strip(t) ==
    LET ink == {i \in DOMAIN t : t[i] # ""}
    IN IF ink = {} THEN <<>>
       ELSE SubSeq(t, CHOOSE i \in ink : \A j \in ink : i <= j,
                      CHOOSE i \in ink : \A j \in ink : j <= i)

\* parse_config without the test for the header line.
parse_config_any_head(h) == strip(h)

\* parse_config, the interface it returns: the head is split in front of every
\* [Interface] line, each part is stripped, and the last part that starts with
\* the header is the interface; the text in front of the first header is in
\* no part that is kept.
parse_config(h) ==
    LET at == {i \in DOMAIN h : h[i] = "[Interface]"}
    IN IF at = {} THEN <<>>
       ELSE strip(SubSeq(h, CHOOSE i \in at : \A j \in at : j <= i, Len(h)))

\* build_config with the first line of the interface left out.
build_config_body_only(interface) == Tail(strip(interface))

\* build_config, the head of the text it returns: parts[0].
build_config(interface) == strip(interface)

\* ------------------------------------------------------- config file store
\* The planes the store touches, as one value.
World(c, b, kn) == [conf |-> c, bak |-> b, kernel |-> kn]

\* `public_key in content` for a public key.
KeyInContent(c, k) == k \in ConfKeys(c)

\* `public_key in content` when the argument is a user name: the name is in
\* the file as the comment line add_peer_to_config wrote.
NameInContent(c, h) == \E i \in DOMAIN c : c[i].comment = h

reload_wireguard(w, ok) ==
    IF ok THEN [w EXCEPT !.kernel = SyncConf(w.conf)] ELSE w

\* add_peer_to_config up to the rename: backup, append, write.
AddWrite(w, k, a, c) ==
    [w EXCEPT !.bak = w.conf, !.conf = Append(w.conf, Section(k, a, c))]

\* The rollback of add_peer_to_config: copy the backup over the file, re-sync.
AddRollback(w, ok2) == reload_wireguard([w EXCEPT !.conf = w.bak], ok2)

\* add_peer_to_config with a sync of the kernel before it refuses a key.
add_peer_to_config_resync(w, k, a, c, ok1, ok2) ==
    IF KeyInContent(w.conf, k)
    THEN [w |-> reload_wireguard(w, TRUE), raised |-> TRUE, wrote |-> FALSE]
    ELSE IF ok1
         THEN [w |-> reload_wireguard(AddWrite(w, k, a, c), TRUE),
               raised |-> FALSE, wrote |-> TRUE]
         ELSE [w |-> AddRollback(AddWrite(w, k, a, c), ok2),
               raised |-> TRUE, wrote |-> TRUE]

\* add_peer_to_config without the reload after its write.
add_peer_to_config_no_reload(w, k, a, c, ok1, ok2) ==
    IF KeyInContent(w.conf, k)
    THEN [w |-> w, raised |-> TRUE, wrote |-> FALSE]
    ELSE [w |-> AddWrite(w, k, a, c), raised |-> FALSE, wrote |-> TRUE]

\* add_peer_to_config; ok1, ok2 are the outcomes of its two reloads.
add_peer_to_config(w, k, a, c, ok1, ok2) ==
    IF KeyInContent(w.conf, k)
    THEN [w |-> w, raised |-> TRUE, wrote |-> FALSE]
    ELSE IF ok1
         THEN [w |-> reload_wireguard(AddWrite(w, k, a, c), TRUE),
               raised |-> FALSE, wrote |-> TRUE]
         ELSE [w |-> AddRollback(AddWrite(w, k, a, c), ok2),
               raised |-> TRUE, wrote |-> TRUE]

\* remove_peer_from_config without its rewrite of the file.
remove_peer_kernel_only(w, k, okSet, okReload) ==
    IF okSet THEN [w EXCEPT !.kernel = KernelRemove(w.kernel, k)] ELSE w

\* remove_peer_from_config with its reload also when the file has no section.
remove_peer_always_reload(w, k, okSet, okReload) ==
    LET w1 == IF okSet THEN [w EXCEPT !.kernel = KernelRemove(w.kernel, k)] ELSE w
    IN reload_wireguard(
           [w1 EXCEPT !.conf = SelectSeq(w1.conf, LAMBDA s : s.key # k)], okReload)

\* remove_peer_from_config; okSet is the outcome of `wg set ... remove`,
\* okReload that of the final reload. Neither outcome is looked at.
remove_peer_from_config(w, k, okSet, okReload) ==
    LET w1 == IF okSet THEN [w EXCEPT !.kernel = KernelRemove(w.kernel, k)] ELSE w
    IN IF ~KeyInContent(w1.conf, k) THEN w1
       ELSE reload_wireguard(
                [w1 EXCEPT !.conf = SelectSeq(w1.conf, LAMBDA s : s.key # k)],
                okReload)

\* remove_peer_from_config called with a user name (register_user's except
\* branch): `wg set` rejects the name, no section has it as PublicKey.
RemovePeerByName(w, h, okReload) ==
    IF ~NameInContent(w.conf, h) THEN w
    ELSE reload_wireguard(w, okReload)

\* ------------------------------------------------------------ firewall
Rule(a, d, t) == [src |-> a, dst |-> d, target |-> t]
Nets == {PRIVATE_NETWORKS[i] : i \in DOMAIN PRIVATE_NETWORKS}

\* remove_acl: every rule shape it deletes, each until none is left.
RemovedShape(r, a) ==
    /\ r.src = a
    /\ \/ r.dst = "any" /\ r.target \in {"ACCEPT", "DROP", "REJECT"}
       \/ r.dst \in Nets /\ r.target \in {"DROP", "ACCEPT"}

\* remove_acl without its deletes of the rules that name no destination.
remove_acl_nets_only(ch, a) == SelectSeq(ch, LAMBDA r : ~(r.src = a /\ r.dst \in Nets))

remove_acl(ch, a) == SelectSeq(ch, LAMBDA r : ~RemovedShape(r, a))

ProfileRules(a, p) ==
    IF p = "full" THEN <<Rule(a, "any", "ACCEPT")>>
    ELSE IF p = "internet-only" THEN
        <<Rule(a, "server", "ACCEPT"), Rule(a, PRIVATE_NETWORKS[1], "DROP"),
          Rule(a, "server", "ACCEPT"), Rule(a, PRIVATE_NETWORKS[2], "DROP"),
          Rule(a, "server", "ACCEPT"), Rule(a, PRIVATE_NETWORKS[3], "DROP"),
          Rule(a, "any", "ACCEPT")>>
    ELSE IF p = "intranet-only" THEN
        <<Rule(a, PRIVATE_NETWORKS[1], "ACCEPT"), Rule(a, PRIVATE_NETWORKS[2], "ACCEPT"),
          Rule(a, PRIVATE_NETWORKS[3], "ACCEPT"), Rule(a, "any", "DROP")>>
    ELSE <<>>

apply_acl(ch, a, p) == remove_acl(ch, a) \o ProfileRules(a, p)

RECURSIVE ApplyAll(_, _)
\* The loop of lifespan: apply_acl for every row, in the order read.
ApplyAll(ch, us) ==
    IF us = <<>> THEN ch
    ELSE ApplyAll(apply_acl(ch, Head(us).assigned_ip, Head(us).acl_profile), Tail(us))

\* The rules of the chain keyed on source address a, in chain order.
RulesOf(ch, a) == SelectSeq(ch, LAMBDA r : r.src = a)

\* ------------------------------------------------------------ global rules
\* The built-in chains init_firewall_chains writes to, none with a rule: the
\* tables after a boot. FORWARD6 is chain FORWARD of ip6tables. A rule is its
\* match and target, its -d address and its -p protocol ("-" when it has none).
NoTables ==
    [FORWARD |-> <<>>, INPUT |-> <<>>, PREROUTING |-> <<>>, POSTROUTING |-> <<>>,
     MANGLE_FORWARD |-> <<>>, FORWARD6 |-> <<>>]
DOH_IPS == <<"8.8.8.8", "8.8.4.4", "1.1.1.1", "1.0.0.1", "9.9.9.9", "149.112.112.112">>
Protos == <<"udp", "tcp">>

\* `-C chain rule`, and when it fails `-I chain 1 rule`.
InsertIfAbsent(ch, r) == IF \E i \in DOMAIN ch : ch[i] = r THEN ch ELSE <<r>> \o ch
\* `-C chain rule`, and when it fails `-A chain rule`.
AppendIfAbsent(ch, r) == IF \E i \in DOMAIN ch : ch[i] = r THEN ch ELSE Append(ch, r)
RECURSIVE InsertEach(_, _)
\* `-I chain 1 rule` for each rule of rs in turn, with no `-C` before it.
InsertEach(ch, rs) == IF rs = <<>> THEN ch ELSE InsertEach(<<Head(rs)>> \o ch, Tail(rs))

init_firewall_chains(nf) ==
    LET hooked == InsertIfAbsent(nf.FORWARD, <<"-j VPN_ACL", "-", "-">>)
        stateful == InsertIfAbsent(hooked,
                        <<"-m conntrack --ctstate ESTABLISHED,RELATED -j ACCEPT", "-", "-">>)
        dns == InsertEach(stateful,
                   [i \in 1..2 |-> <<"-i wg0 --dport 53 -j REJECT", "-", Protos[i]>>])
        dot == InsertEach(dns, << <<"-i wg0 --dport 853 -j REJECT", "-", "tcp">> >>)
        doh == InsertEach(dot,
                   [i \in 1..(2 * Len(DOH_IPS)) |->
                       <<"-i wg0 --dport 443 -j REJECT", DOH_IPS[(i + 1) \div 2],
                         IF i % 2 = 1 THEN "tcp" ELSE "udp">>])
    IN [FORWARD |-> doh,
        INPUT |-> InsertEach(nf.INPUT,
                      [i \in 1..2 |-> <<"-i wg0 --dport 53 -j ACCEPT", "10.50.0.1", Protos[i]>>]),
        PREROUTING |-> InsertEach(nf.PREROUTING,
                      [i \in 1..2 |-> <<"-i wg0 --dport 53 -j DNAT --to-destination 10.50.0.1:53",
                                         "-", Protos[i]>>]),
        POSTROUTING |-> AppendIfAbsent(nf.POSTROUTING, <<"-s 10.50.0.0/24 -j MASQUERADE", "-", "-">>),
        MANGLE_FORWARD |-> AppendIfAbsent(nf.MANGLE_FORWARD,
                      <<"--tcp-flags SYN,RST SYN -j TCPMSS --clamp-mss-to-pmtu", "-", "tcp">>),
        FORWARD6 |-> InsertEach(nf.FORWARD6,
                      [i \in 1..2 |-> <<"-i wg0 --dport 53 -j DROP", "-", Protos[i]>>])]

\* ------------------------------------------------------------ reconciler
RECURSIVE EnforcePeers(_, _)
\* `wg set wg0 peer k1 allowed-ips a1/32 peer k2 allowed-ips a2/32 ...`
EnforcePeers(kn, act) ==
    IF act = <<>> THEN kn
    ELSE EnforcePeers(KernelSet(kn, Head(act).public_key, Head(act).assigned_ip), Tail(act))

\* The file the reconciler builds: one section per active user.
ReconciledPeers(act) ==
    [i \in DOMAIN act |-> Section(act[i].public_key, act[i].assigned_ip, NoComment)]

\* sync_wireguard_state without the filter on status.
sync_wireguard_state_all_rows(us, w, ifc, okShow, okPurge, okSet, okReload) ==
    LET active == get_all_users(us)
        db_keys == {active[i].public_key : i \in DOMAIN active}
        purged == IF okPurge
                  THEN [k \in DOMAIN w.kernel \cap db_keys |-> w.kernel[k]]
                  ELSE w.kernel
        w1 == [w EXCEPT !.kernel = purged,
                        !.conf = IF ifc THEN ReconciledPeers(active) ELSE w.conf]
    IN IF ~okShow THEN w
       ELSE IF db_keys = {} THEN reload_wireguard(w1, okReload)
       ELSE IF ~okSet THEN w1
       ELSE reload_wireguard([w1 EXCEPT !.kernel = EnforcePeers(w1.kernel, active)], okReload)

\* sync_wireguard_state with the sections of the active users appended to the
\* file as it is.
sync_wireguard_state_appending(us, w, ifc, okShow, okPurge, okSet, okReload) ==
    LET active == ActiveUsers(get_all_users(us))
        db_keys == {active[i].public_key : i \in DOMAIN active}
        purged == IF okPurge
                  THEN [k \in DOMAIN w.kernel \cap db_keys |-> w.kernel[k]]
                  ELSE w.kernel
        w1 == [w EXCEPT !.kernel = purged,
                        !.conf = IF ifc THEN w.conf \o ReconciledPeers(active) ELSE w.conf]
    IN IF ~okShow THEN w
       ELSE IF db_keys = {} THEN reload_wireguard(w1, okReload)
       ELSE IF ~okSet THEN w1
       ELSE reload_wireguard([w1 EXCEPT !.kernel = EnforcePeers(w1.kernel, active)], okReload)

\* sync_wireguard_state. okShow: `wg show peers`; okPurge: the zombie
\* removals; okSet: the `wg set` batch; okReload: the final reload.
sync_wireguard_state(us, w, ifc, okShow, okPurge, okSet, okReload) ==
    LET active == ActiveUsers(get_all_users(us))
        db_keys == {active[i].public_key : i \in DOMAIN active}
        purged == IF okPurge
                  THEN [k \in DOMAIN w.kernel \cap db_keys |-> w.kernel[k]]
                  ELSE w.kernel
        w1 == [w EXCEPT !.kernel = purged,
                        !.conf = IF ifc THEN ReconciledPeers(active) ELSE w.conf]
    IN IF ~okShow THEN w
       ELSE IF db_keys = {} THEN reload_wireguard(w1, okReload)
       ELSE IF ~okSet THEN w1
       ELSE reload_wireguard([w1 EXCEPT !.kernel = EnforcePeers(w1.kernel, active)], okReload)

\* ------------------------------------------------------------ telemetry
\* get_connected_peers: a peer is connected while its last handshake is younger.
HANDSHAKE_TIMEOUT == 300
\* The values the kernel transfer counters take, in bytes: received, sent.
CounterValues == {0, 50000, 1000000}
SentValues == {0, 50000}
\* The handshake ages, in seconds, a dump shows.
HandshakeAges == {100, 299, 300, 400}
\* latest_handshake of a dump line: never seen ('0'), or seen `age` seconds ago.
Handshakes ==
    {[seen |-> FALSE, age |-> 0]} \cup {[seen |-> TRUE, age |-> a] : a \in HandshakeAges}
\* The persist_to_db tasks that can be in flight together.
PassIds == {1, 2}
\* Number of persistence passes broadcast_metrics starts in one behaviour.
MaxPasses == 2

Bytes(rx, tx) == [rx |-> rx, tx |-> tx]
EmptyDict == [k \in {} |-> 0]
Put(d, k, v) == [x \in DOMAIN d \cup {k} |-> IF x = k THEN v ELSE d[x]]
Del(d, k) == [x \in DOMAIN d \ {k} |-> d[x]]

\* is_connected with a handshake as old as the window still counted.
is_connected_inclusive(hs) == hs.seen /\ hs.age <= HANDSHAKE_TIMEOUT

is_connected(hs) == hs.seen /\ hs.age < HANDSHAKE_TIMEOUT

\* The delta with a counter that went backwards taken as a plain difference.
delta_no_reset(cur, last) == cur - last

\* The delta with a counter that went backwards taken as the size of the drop.
delta_drop(cur, last) == IF cur >= last THEN cur - last ELSE last - cur

\* delta_rx, delta_tx of sync_stats_to_db.
delta(cur, last) == IF cur >= last THEN cur - last ELSE cur

\* A pass that is not running, and the locals of one that is: the dump it
\* read, the remembered counters it computed with, the statements its
\* transaction holds (totals to add, session inserted, session whose bytes
\* grow, session to close), its `now`, counted in passes started, and the
\* two dicts of stats.py as they were when it started.
IdlePass ==
    [pc |-> "idle", peers |-> EmptyDict, current_connected |-> {},
     cur |-> Bytes(0, 0), last |-> Bytes(0, 0), add |-> Bytes(0, 0),
     opened |-> 0, upd |-> 0, closeKey |-> NoKey, closing |-> 0, now |-> 0,
     mem0 |-> EmptyDict, act0 |-> EmptyDict]

\* No frame: the observer is not connected.
NoFrame == [tick |-> -1, has |-> FALSE, rx |-> 0, tx |-> 0]

\* The websockets a behaviour of SpecPoller knows, and one no client holds.
Sockets == {1, 2}
NoSocket == [st |-> "closed", got |-> FALSE]

\* broadcast_metrics at the top of its loop; start is the copy of the list a
\* broadcast iterates over, todo what is left of it.
AtTick == [pc |-> "tick", start |-> <<>>, todo |-> <<>>]

\* The state of stats.py and its tables where no poller runs.
StatsQuiet ==
    /\ delivered = NoFrame
    /\ active_connections = <<>>
    /\ sockets = [w \in Sockets |-> NoSocket]
    /\ poller = AtTick
    /\ transfer = Bytes(0, 0)
    /\ resets = 0
    /\ metrics_cache = EmptyDict
    /\ last_stats = EmptyDict
    /\ active_sessions = EmptyDict
    /\ totals = Bytes(0, 0)
    /\ sessions = EmptyDict
    /\ nextSid = 1
    /\ pass = [p \in PassIds |-> IdlePass]
    /\ started = 0

\* ------------------------------------------------------------ Spec: state
\* op: the handler; ok: it answered 2xx; key: the key it worked on; wrote: it
\* rewrote the file; clean: every tool and registry call it made succeeded.
Ret(op, ok, k, wrote, clean) ==
    [op |-> op, ok |-> ok, key |-> k, wrote |-> wrote, clean |-> clean]
NoSnap == [h |-> "-"]
\* No backup written yet; the path names the inode the file was installed as.
NoDisk == [bak |-> <<>>, inode |-> 0]
\* No call in flight, and where no step-by-step call ever is.
NoCall == [pc |-> "idle"]
NoCalls == [h \in Handles |-> NoCall]
\* The planes before a call, kept for the properties that compare them.
\* twice: the call that took them has since been followed by its like.
Snap(h) ==
    [h |-> h, users |-> users, conf |-> conf, kernel |-> kernel, chain |-> chain,
     iface |-> iface, twice |-> FALSE]

LegacyRow == Row("bob", LegacyKey, NoKey, VPN_IP_START)

\* The deployed system after a clean start: the planes agree. The registry is
\* empty, or holds one row that predates the private_key column. The file has
\* its [Interface] section, or an operator's edit has lost it.
Init ==
    /\ users \in {<<>>, <<LegacyRow>>}
    /\ conf = ReconciledPeers(users)
    /\ iface \in {NoHead, PlainHead}
    /\ kernel = SyncConf(conf)
    /\ chain = ApplyAll(<<>>, get_all_users(users))
    /\ nextKey = 1
    /\ disk = NoDisk
    /\ netfilter = init_firewall_chains(NoTables)
    /\ faults = 0
    /\ ret = Ret("init", TRUE, NoKey, FALSE, TRUE)
    /\ snap = NoSnap
    /\ StatsQuiet
    /\ call = NoCalls

\* wg0.conf.bak is written by add_peer_to_config before it is read, so what it
\* holds between two calls that run one after the other is never read.
Now == World(conf, conf, kernel)
SetWorld(w) == conf' = w.conf /\ kernel' = w.kernel
Exists(h) == \E i \in DOMAIN users : users[i].username = h

\* The outcomes of the two reloads of add_peer_to_config (the second runs only
\* when the first failed).
AddOutcomes == {<<TRUE, TRUE>>, <<FALSE, TRUE>>, <<FALSE, FALSE>>}

\* ------------------------------------------------------------ Spec: handlers
\* Each handler runs to its return; the outcomes of the tools and of the
\* registry writes it waits for are inputs, the failures among them counted.
Cost(ok) == IF ok THEN 0 ELSE 1
AddCost(ao) == Cost(ao[1]) + (IF ao[1] THEN 0 ELSE Cost(ao[2]))
Charge(c) == faults + c <= MaxFaults /\ faults' = faults + c

\* What every lifecycle call leaves behind: no handler of users.py touches
\* the state of stats.py. ch is the chain the call leaves.
ReturnFw(r, sn, ch, nf) ==
    /\ ret' = r
    /\ snap' = sn
    /\ Len(ch) <= MaxRules
    /\ chain' = ch
    /\ netfilter' = nf
    /\ UNCHANGED <<statsVars, disk, call>>

\* The return of a handler that leaves the built-in chains alone.
ReturnAcl(r, sn, ch) == ReturnFw(r, sn, ch, netfilter)

\* The return of a handler that calls nothing of firewall.py.
Return(r, sn) == ReturnAcl(r, sn, chain)

Reply(op, ok, k, wrote, clean) == Return(Ret(op, ok, k, wrote, clean), NoSnap)

\* A handler that answers 4xx before it touches anything.
Refuse(op) ==
    /\ Reply(op, FALSE, NoKey, FALSE, TRUE)
    /\ UNCHANGED <<users, conf, iface, kernel, nextKey, faults>>

\* generate_keypair raises in a handler whose except branch changes nothing.
KeygenFails(op) ==
    /\ Charge(1)
    /\ Reply(op, FALSE, NoKey, FALSE, FALSE)
    /\ UNCHANGED <<users, conf, iface, kernel, nextKey>>

\* POST /api/users
create_vpn_user(h) ==
    IF Exists(h) THEN Refuse("create")
    ELSE \/ KeygenFails("create")
         \/ \E ao \in AddOutcomes, dbOk, pubOk \in BOOLEAN, p \in Profiles :
              LET k == nextKey
                  a == allocate_ip(get_used_ips(users))
                  r == add_peer_to_config(Now, k, a, h, ao[1], ao[2])
                  row == create_user(h, k, k, a, p)
                  stored == ~r.raised /\ dbOk /\ UniqueOk(users, row)
                  done == stored /\ pubOk                \* get_server_public_key
              IN /\ nextKey <= MaxKeys
                 /\ nextKey' = nextKey + 1
                 /\ Charge(AddCost(ao) + Cost(dbOk) + Cost(pubOk))
                 /\ IF a = NoIP
                    THEN /\ Reply("create", FALSE, k, FALSE, TRUE)
                         /\ UNCHANGED <<users, conf, kernel>>
                    ELSE /\ SetWorld(r.w)
                         /\ users' = IF stored THEN Append(users, row) ELSE users
                         /\ ReturnAcl(Ret("create", done, k, r.wrote, ao[1] /\ dbOk /\ pubOk),
                                      IF done THEN Snap(h) ELSE NoSnap,
                                      IF r.raised THEN chain ELSE apply_acl(chain, a, p))
                 /\ UNCHANGED iface

\* POST /api/users/register, past the invite check. The call of
\* generate_client_config passes five positional arguments to a function of
\* four, so every run that gets that far ends in the except branch, which
\* calls remove_peer_from_config with the user name.
register_user(h) ==
    IF Exists(h) THEN Refuse("register")
    ELSE \E okR \in BOOLEAN :
         \/ /\ Charge(1 + Cost(okR))                       \* generate_keypair raises
            /\ SetWorld(RemovePeerByName(Now, h, okR))
            /\ Reply("register", FALSE, NoKey, FALSE, FALSE)
            /\ UNCHANGED <<users, iface, nextKey>>
         \/ \E ao \in AddOutcomes, dbOk \in BOOLEAN :
              LET k == nextKey
                  a == allocate_ip(get_used_ips(users))
                  r == add_peer_to_config(Now, k, a, h, ao[1], ao[2])
                  row == create_user(h, k, k, a, "full")
                  stored == ~r.raised /\ a # NoIP /\ dbOk /\ UniqueOk(users, row)
              IN /\ nextKey <= MaxKeys
                 /\ nextKey' = nextKey + 1
                 /\ Charge(AddCost(ao) + Cost(dbOk) + Cost(okR))
                 /\ SetWorld(RemovePeerByName(IF a = NoIP THEN Now ELSE r.w, h, okR))
                 /\ users' = IF stored THEN Append(users, row) ELSE users
                 /\ ReturnAcl(Ret("register", FALSE, k, a # NoIP /\ r.wrote,
                                  ao[1] /\ dbOk /\ okR), NoSnap,
                              IF a = NoIP \/ r.raised THEN chain
                              ELSE apply_acl(chain, a, "full"))
                 /\ UNCHANGED iface

\* DELETE /api/users/{username}
delete_vpn_user(h) ==
    IF ~Exists(h) THEN Refuse("delete")
    ELSE \E okSet, okReload, dbOk \in BOOLEAN :
           LET user == get_user_by_username(users, h)
               follows == ret.op = "create" /\ ret.ok /\ snap.h = h
           IN /\ Charge(Cost(okSet) + Cost(okReload) + Cost(dbOk))
              /\ SetWorld(remove_peer_from_config(Now, user.public_key, okSet, okReload))
              /\ users' = IF dbOk THEN delete_user(users, h) ELSE users
              /\ Return(Ret("delete", dbOk, user.public_key, FALSE, okSet /\ okReload /\ dbOk),
                        IF follows /\ dbOk THEN snap ELSE NoSnap)
              /\ UNCHANGED <<iface, nextKey>>

\* The planes kept across two toggles of h that both went through: those
\* before the first one.
ToggleSnap(h, through) ==
    IF ~through THEN NoSnap
    ELSE IF ret.op = "toggle" /\ ret.ok /\ ret.clean /\ snap.h = h /\ ~snap.twice
    THEN [snap EXCEPT !.twice = TRUE]
    ELSE Snap(h)

\* PATCH /api/users/{username}/toggle
toggle_user_status(h) ==
    LET user == get_user_by_username(users, h)
    IN IF ~Exists(h) THEN Refuse("toggle")
       ELSE IF user.status = "active"
       THEN \E okSet, okReload, dbOk \in BOOLEAN :
              /\ Charge(Cost(okSet) + Cost(okReload) + Cost(dbOk))
              /\ SetWorld(remove_peer_from_config(Now, user.public_key, okSet, okReload))
              /\ users' = IF dbOk THEN update_user_status(users, h, "disabled") ELSE users
              /\ Return(Ret("toggle", dbOk, user.public_key, FALSE, okSet /\ okReload /\ dbOk),
                        ToggleSnap(h, okSet /\ okReload /\ dbOk))
              /\ UNCHANGED <<iface, nextKey>>
       ELSE \E ao \in AddOutcomes, dbOk \in BOOLEAN :
              LET r == add_peer_to_config(Now, user.public_key, user.assigned_ip, h, ao[1], ao[2])
              IN /\ Charge(AddCost(ao) + Cost(dbOk))
                 /\ SetWorld(r.w)
                 /\ users' = IF ~r.raised /\ dbOk
                             THEN update_user_status(users, h, "active") ELSE users
                 /\ Return(Ret("toggle", ~r.raised /\ dbOk, user.public_key, r.wrote,
                               ao[1] /\ dbOk),
                           ToggleSnap(h, ~r.raised /\ ao[1] /\ dbOk))
                 /\ UNCHANGED <<iface, nextKey>>

\* The key replacement rotate_user_keys and get_user_config share: remove the
\* old key, add the new one without a comment, store the new pair.
\* get_user_config goes on to get_server_public_key (pubOk) once it is stored.
ReplaceKeys(op, h) ==
    \E okSet, okReload \in BOOLEAN, ao \in AddOutcomes, dbOk, pubOk \in BOOLEAN :
        LET user == get_user_by_username(users, h)
            k == nextKey
            w1 == remove_peer_from_config(Now, user.public_key, okSet, okReload)
            r == add_peer_to_config(w1, k, user.assigned_ip, NoComment, ao[1], ao[2])
            stored == ~r.raised /\ dbOk
        IN /\ nextKey <= MaxKeys
           /\ nextKey' = nextKey + 1
           /\ ~pubOk => (op = "config" /\ stored)
           /\ Charge(Cost(okSet) + Cost(okReload) + AddCost(ao) + Cost(dbOk) + Cost(pubOk))
           /\ SetWorld(r.w)
           /\ users' = IF stored THEN UpdateKeys(users, h, k) ELSE users
           /\ Return(Ret(op, stored /\ pubOk, k, r.wrote,
                         okSet /\ okReload /\ ao[1] /\ dbOk /\ pubOk), Snap(h))
           /\ UNCHANGED iface

\* POST /api/users/{username}/rotate
rotate_user_keys(h) ==
    IF ~Exists(h) THEN Refuse("rotate")
    ELSE \/ KeygenFails("rotate")
         \/ ReplaceKeys("rotate", h)

\* GET /api/users/{username}/config
get_user_config(h) ==
    LET user == get_user_by_username(users, h)
    IN IF ~Exists(h) THEN Refuse("config")
       ELSE IF user.private_key # NoKey
       THEN \E pubOk \in BOOLEAN :                        \* get_server_public_key
              /\ Charge(Cost(pubOk))
              /\ Return(Ret("config", pubOk, user.private_key, FALSE, pubOk), Snap(h))
              /\ UNCHANGED <<users, conf, iface, kernel, nextKey>>
       ELSE \/ KeygenFails("config")
            \/ ReplaceKeys("config", h)

\* POST /api/users/{username}/sync
sync_user_to_config(h) ==
    LET user == get_user_by_username(users, h)
    IN IF ~Exists(h) \/ user.status # "active" THEN Refuse("sync")
       ELSE \E ao \in AddOutcomes :
              LET r == add_peer_to_config(Now, user.public_key, user.assigned_ip,
                                          NoComment, ao[1], ao[2])
              IN /\ Charge(AddCost(ao))
                 /\ SetWorld(r.w)
                 /\ Reply("sync", ~r.raised, user.public_key, r.wrote, ao[1])
                 /\ UNCHANGED <<users, iface, nextKey>>

RECURSIVE SyncEach(_, _, _)
\* The loop of sync_all_users: add_peer_to_config for every active user, the
\* error of each caught. Returns the planes and whether any call raised.
SyncEach(w, us, ao) ==
    IF us = <<>> THEN [w |-> w, errors |-> FALSE]
    ELSE IF Head(us).status # "active" THEN SyncEach(w, Tail(us), ao)
    ELSE LET o == ao[Head(us).username]
             r == add_peer_to_config(w, Head(us).public_key, Head(us).assigned_ip,
                                     NoComment, o[1], o[2])
             rest == SyncEach(r.w, Tail(us), ao)
         IN [w |-> rest.w, errors |-> r.raised \/ rest.errors]

\* POST /api/users/sync_all
sync_all_users ==
    \E ao \in [Handles -> AddOutcomes] :
        LET r == SyncEach(Now, get_all_users(users), ao)
        IN /\ Charge(AddCost(ao["alice"]) + AddCost(ao["bob"]))
           /\ SetWorld(r.w)
           /\ Return(Ret("sync_all", ~r.errors, NoKey, r.w.conf # conf,
                         \A h \in Handles : ao[h][1]), Snap("-"))
           /\ UNCHANGED <<users, iface, nextKey>>

\* lifespan: the startup of a new process over the planes the old one left:
\* sync_wireguard_state, init_firewall_chains, then apply_acl for every row
\* of the registry.
lifespan ==
    \E okShow, okPurge, okSet, okReload \in BOOLEAN :
        LET interface_cfg == parse_config(iface)
            rewrites == okShow /\ interface_cfg # <<>>
        IN /\ Len(netfilter.INPUT) < MaxInstalls * Len(Protos)
           /\ Charge(Cost(okShow) + Cost(okPurge) + Cost(okSet) + Cost(okReload))
           /\ SetWorld(sync_wireguard_state(users, Now, interface_cfg # <<>>,
                                            okShow, okPurge, okSet, okReload))
           /\ iface' = IF rewrites THEN build_config(interface_cfg) ELSE iface
           /\ ReturnFw(Ret("startup", TRUE, NoKey, rewrites,
                           okShow /\ okPurge /\ okSet /\ okReload),
                       [Snap("-") EXCEPT !.twice = (ret.op = "startup" /\ ret.clean)]
                           @@ [netfilter |-> netfilter],
                       ApplyAll(chain, get_all_users(users)),
                       init_firewall_chains(netfilter))
           /\ UNCHANGED <<users, nextKey>>

\* ------------------------------------------------------------ environment
\* An operator removes a peer from the running interface by hand. One such
\* change at a time: the interface matched the file before it.
KernelRemoveByHand ==
    \E k \in DOMAIN kernel :
        /\ kernel = SyncConf(conf)
        /\ kernel' = KernelRemove(kernel, k)
        /\ Reply("tamper", TRUE, k, FALSE, TRUE)
        /\ UNCHANGED <<users, conf, iface, nextKey, faults>>

\* A peer the registry does not know is set on the running interface.
KernelInjectByHand ==
    /\ kernel = SyncConf(conf)
    /\ kernel' = KernelSet(kernel, ForeignKey, VPN_IP_END)
    /\ Reply("tamper", TRUE, ForeignKey, FALSE, TRUE)
    /\ UNCHANGED <<users, conf, iface, nextKey, faults>>

Next ==
    \/ \E h \in Handles : create_vpn_user(h)
    \/ \E h \in Handles : register_user(h)
    \/ \E h \in Handles : delete_vpn_user(h)
    \/ \E h \in Handles : toggle_user_status(h)
    \/ \E h \in Handles : rotate_user_keys(h)
    \/ \E h \in Handles : get_user_config(h)
    \/ \E h \in Handles : sync_user_to_config(h)
    \/ sync_all_users
    \/ lifespan
    \/ KernelRemoveByHand
    \/ KernelInjectByHand

Spec == Init /\ [][Next]_vars

\* ------------------------------------------------------------ SpecStats
\* sync_stats_to_db, one action per stretch between two awaits, so that two
\* passes in flight interleave where the event loop lets them. The interface
\* carries one peer, so each loop of a pass runs once.
Quiet == [op |-> "-"]
\* open_before: the sessions of the table with the active flag set before
\* the pass committed; connected: the pass found its peer connected; rows:
\* the table before the pass committed.
PassLog(ok, ps, after) ==
    [op |-> "pass", ok |-> ok, cur |-> ps.cur, last |-> ps.last,
     before |-> totals, after |-> after, now |-> ps.now, add |-> ps.add,
     opened |-> ps.opened, upd |-> ps.upd, rows |-> sessions,
     mem0 |-> ps.mem0, act0 |-> ps.act0,
     connected |-> ps.current_connected # {},
     open_before |-> {id \in DOMAIN sessions : sessions[id].is_active}]
RememberLog(cur, mem) == [op |-> "remember", cur |-> cur, remembered |-> mem]

TheKey(d) == CHOOSE k \in DOMAIN d : TRUE
SetPass(p, ps) == pass' = [pass EXCEPT ![p] = ps]

\* `wg show wg0 dump` as get_connected_peers parses it.
DumpPeers(hs) ==
    [k \in DOMAIN kernel |->
        [rx |-> transfer.rx, tx |-> transfer.tx, connected |-> is_connected(hs)]]

\* The closing loop up to its first await: the first entry of
\* _active_sessions whose key is not in current_connected, if any.
CloseLoop(ps, act) ==
    LET stale == DOMAIN act \ ps.current_connected
    IN IF stale = {} THEN [ps EXCEPT !.pc = "commit"]
       ELSE LET k == CHOOSE x \in stale : TRUE
            IN [ps EXCEPT !.pc = "closing", !.closeKey = k, !.closing = act[k]]

\* broadcast_metrics: asyncio.create_task(persist_to_db(connected)).
StartPass(p) ==
    /\ pass[p].pc = "idle"
    /\ \A q \in PassIds : q < p => pass[q].pc # "idle"     \* the first free task
    /\ started < MaxPasses
    /\ started' = started + 1
    /\ SetPass(p, [IdlePass EXCEPT !.pc = "dump", !.now = started + 1,
                                   !.mem0 = last_stats, !.act0 = active_sessions])
    /\ ret' = Quiet
    /\ UNCHANGED <<lifecycleVars, pollerVars, delivered, faults, snap, transfer, resets, metrics_cache, last_stats,
                   active_sessions, totals, sessions, nextSid>>

\* await get_connected_peers(use_cache=False); a failed dump answers the cache.
Dump(p) ==
    /\ pass[p].pc = "dump"
    /\ \E ok \in BOOLEAN, hs \in Handshakes :
         LET peers == IF ok THEN DumpPeers(hs) ELSE metrics_cache
             ps == [pass[p] EXCEPT !.peers = peers]
         IN /\ Charge(Cost(ok))
            /\ metrics_cache' = peers
            /\ SetPass(p, IF peers = EmptyDict THEN CloseLoop(ps, active_sessions)
                          ELSE [ps EXCEPT !.pc = "select"])
    /\ ret' = Quiet
    /\ UNCHANGED <<lifecycleVars, pollerVars, delivered, snap, transfer, resets, last_stats, active_sessions,
                   totals, sessions, nextSid, started>>

\* The session branch of the loop body up to its await; a peer that is not
\* connected has none, and the body runs on to _last_stats and the closing loop.
SessionStep(p, ps) ==
    LET k == TheKey(ps.peers)
    IN IF ps.peers[k].connected /\ k \notin DOMAIN active_sessions
       THEN /\ SetPass(p, [ps EXCEPT !.pc = "flush", !.opened = nextSid])
            /\ nextSid' = nextSid + 1
            /\ ret' = Quiet
            /\ UNCHANGED <<last_stats, active_sessions>>
       ELSE IF ps.peers[k].connected
       THEN /\ SetPass(p, [ps EXCEPT !.pc = "update", !.upd = active_sessions[k]])
            /\ ret' = Quiet
            /\ UNCHANGED <<nextSid, last_stats, active_sessions>>
       ELSE /\ last_stats' = Put(last_stats, k, ps.cur)
            /\ SetPass(p, CloseLoop(ps, active_sessions))
            /\ ret' = RememberLog(ps.cur, last_stats'[k])
            /\ UNCHANGED <<nextSid, active_sessions>>

\* The select of the user returns; the deltas are computed against
\* _last_stats, and the update of the totals is issued when one is positive.
Select(p) ==
    /\ pass[p].pc = "select"
    /\ LET k == TheKey(pass[p].peers)
           info == pass[p].peers[k]
           last == IF k \in DOMAIN last_stats THEN last_stats[k] ELSE Bytes(0, 0)
           d == Bytes(delta(info.rx, last.rx), delta(info.tx, last.tx))
           ps == [pass[p] EXCEPT !.current_connected = IF info.connected THEN {k} ELSE {},
                                 !.cur = Bytes(info.rx, info.tx),
                                 !.last = last, !.add = d]
       IN IF ~\E i \in DOMAIN users : users[i].public_key = k
          THEN /\ SetPass(p, CloseLoop(pass[p], active_sessions))
               /\ ret' = Quiet
               /\ UNCHANGED <<nextSid, last_stats, active_sessions>>
          ELSE IF d.rx > 0 \/ d.tx > 0
          THEN /\ SetPass(p, [ps EXCEPT !.pc = "totals"])
               /\ ret' = Quiet
               /\ UNCHANGED <<nextSid, last_stats, active_sessions>>
          ELSE SessionStep(p, ps)
    /\ UNCHANGED <<lifecycleVars, pollerVars, delivered, faults, snap, transfer, resets, metrics_cache, totals,
                   sessions, started>>

\* The update of the totals returns.
Totals(p) ==
    /\ pass[p].pc = "totals"
    /\ SessionStep(p, pass[p])
    /\ UNCHANGED <<lifecycleVars, pollerVars, delivered, faults, snap, transfer, resets, metrics_cache, totals,
                   sessions, started>>

\* db.flush() or the update of the session returns: _active_sessions and
\* _last_stats are written, and the closing loop starts.
AfterSession(p) ==
    /\ pass[p].pc \in {"flush", "update"}
    /\ LET k == TheKey(pass[p].peers)
           act == IF pass[p].pc = "flush"
                  THEN Put(active_sessions, k, pass[p].opened) ELSE active_sessions
       IN /\ active_sessions' = act
          /\ last_stats' = Put(last_stats, k, pass[p].cur)
          /\ SetPass(p, CloseLoop(pass[p], act))
          /\ ret' = RememberLog(pass[p].cur, last_stats'[k])
    /\ UNCHANGED <<lifecycleVars, pollerVars, delivered, faults, snap, transfer, resets, metrics_cache, totals,
                   sessions, nextSid, started>>

\* The update that closes a session returns; `del _active_sessions[pub_key]`
\* raises KeyError when another pass has deleted the entry meanwhile.
CloseDone(p) ==
    /\ pass[p].pc = "closing"
    /\ IF pass[p].closeKey \in DOMAIN active_sessions
       THEN /\ active_sessions' = Del(active_sessions, pass[p].closeKey)
            /\ SetPass(p, [pass[p] EXCEPT !.pc = "commit"])
            /\ ret' = Quiet
       ELSE /\ SetPass(p, IdlePass)
            /\ ret' = PassLog(FALSE, pass[p], totals)
            /\ UNCHANGED active_sessions
    /\ UNCHANGED <<lifecycleVars, pollerVars, delivered, faults, snap, transfer, resets, metrics_cache, last_stats,
                   totals, sessions, nextSid, started>>

\* The rows of table sessions after the transaction of a pass commits.
CommittedSessions(ps) ==
    LET added == IF ps.opened # 0
                 THEN Put(sessions, ps.opened,
                          [public_key |-> TheKey(ps.peers), is_active |-> TRUE,
                           end_time |-> 0, bytes |-> Bytes(0, 0)])
                 ELSE sessions
        grown == [id \in DOMAIN added |->
                     IF id = ps.upd
                     THEN [added[id] EXCEPT !.bytes = Bytes(@.rx + ps.add.rx, @.tx + ps.add.tx)]
                     ELSE added[id]]
    IN [id \in DOMAIN grown |->
           IF id = ps.closing
           THEN [grown[id] EXCEPT !.is_active = FALSE, !.end_time = ps.now]
           ELSE grown[id]]

\* await db.commit()
Commit(p) ==
    /\ pass[p].pc = "commit"
    /\ totals' = Bytes(totals.rx + pass[p].add.rx, totals.tx + pass[p].add.tx)
    /\ sessions' = CommittedSessions(pass[p])
    /\ SetPass(p, IdlePass)
    /\ ret' = PassLog(TRUE, pass[p], totals')
    /\ UNCHANGED <<lifecycleVars, pollerVars, delivered, faults, snap, transfer, resets, metrics_cache, last_stats,
                   active_sessions, nextSid, started>>

\* A statement of the pass, or its commit, raises: the except branch prints,
\* the transaction is rolled back, the memory keeps what the pass wrote.
PassFails(p) ==
    /\ pass[p].pc \in {"select", "totals", "flush", "update", "closing", "commit"}
    /\ Charge(1)
    /\ SetPass(p, IdlePass)
    /\ ret' = PassLog(FALSE, pass[p], totals)
    /\ UNCHANGED <<lifecycleVars, pollerVars, delivered, snap, transfer, resets, metrics_cache, last_stats,
                   active_sessions, totals, sessions, nextSid, started>>

\* The process is restarted while the tunnel stays up: the tasks and the
\* module globals are gone, the tables and the kernel counters are not.
Restart ==
    /\ pass' = [p \in PassIds |-> IdlePass]
    /\ metrics_cache' = EmptyDict
    /\ last_stats' = EmptyDict
    /\ active_sessions' = EmptyDict
    /\ ret' = [op |-> "restart"]
    /\ UNCHANGED <<lifecycleVars, pollerVars, delivered, faults, snap, transfer, resets, totals, sessions, nextSid,
                   started>>

\* The counters are read by the dump of a pass only, so they are let move
\* when a pass is about to dump them.
DumpPending == \E p \in PassIds : pass[p].pc = "dump"

\* The peer moves data: its counters grow.
Traffic ==
    /\ DumpPending
    /\ \E rx \in CounterValues, tx \in SentValues :
         /\ rx >= transfer.rx /\ tx >= transfer.tx
         /\ Bytes(rx, tx) # transfer
         /\ transfer' = Bytes(rx, tx)
    /\ ret' = Quiet
    /\ UNCHANGED <<lifecycleVars, pollerVars, delivered, faults, snap, resets, metrics_cache, last_stats,
                   active_sessions, totals, sessions, nextSid, pass, started>>

\* The interface is brought down and up: its counters start again at zero.
CounterReset ==
    /\ DumpPending
    /\ transfer # Bytes(0, 0)
    /\ transfer' = Bytes(0, 0)
    /\ resets < MaxResets
    /\ resets' = resets + 1
    /\ ret' = Quiet
    /\ UNCHANGED <<lifecycleVars, pollerVars, delivered, faults, snap, metrics_cache, last_stats,
                   active_sessions, totals, sessions, nextSid, pass, started>>

\* One user, created and never touched again, and its peer.
InitStats ==
    /\ users = <<Row("alice", 1, 1, VPN_IP_START)>>
    /\ conf = ReconciledPeers(users)
    /\ iface = PlainHead
    /\ kernel = SyncConf(conf)
    /\ chain = ApplyAll(<<>>, get_all_users(users))
    /\ nextKey = 2
    /\ disk = NoDisk
    /\ netfilter = init_firewall_chains(NoTables)
    /\ faults = 0
    /\ ret = Quiet
    /\ snap = NoSnap
    /\ StatsQuiet
    /\ call = NoCalls

NextStats ==
    \/ \E p \in PassIds : StartPass(p)
    \/ \E p \in PassIds : Dump(p)
    \/ \E p \in PassIds : Select(p)
    \/ \E p \in PassIds : Totals(p)
    \/ \E p \in PassIds : AfterSession(p)
    \/ \E p \in PassIds : CloseDone(p)
    \/ \E p \in PassIds : Commit(p)
    \/ \E p \in PassIds : PassFails(p)
    \/ Restart
    \/ Traffic
    \/ CounterReset

SpecStats == InitStats /\ [][NextStats]_vars

\* The passes one after the other, as they run while a pass takes less than
\* the 20 s between two: each is the first persist_to_db task.
NextSerial ==
    \/ StartPass(1)
    \/ Dump(1)
    \/ Select(1)
    \/ Totals(1)
    \/ AfterSession(1)
    \/ CloseDone(1)
    \/ Commit(1)
    \/ PassFails(1)
    \/ Restart
    \/ Traffic
    \/ CounterReset

SpecSerial == InitStats /\ [][NextSerial]_vars

\* ------------------------------------------------------------ SpecFrames
\* The poller broadcast_metrics and its observer next to the persistence
\* passes of SpecStats, within one life of the process. A frame is kept as
\* the entry of the one peer: has says the frame holds an entry for it.
PeerKey == users[1].public_key
Frame(n, peers, tot) ==
    [tick |-> n, has |-> TRUE,
     rx |-> tot.rx + (IF PeerKey \in DOMAIN peers THEN peers[PeerKey].rx ELSE 0),
     tx |-> tot.tx + (IF PeerKey \in DOMAIN peers THEN peers[PeerKey].tx ELSE 0)]
FrameLog(prev, cur) == [op |-> "frame", prev |-> prev, cur |-> cur]

\* stats_websocket: the observer connects and is sent the dump as
\* get_connected_peers(use_cache=True) answers it: the cache when it holds
\* anything, a fresh dump otherwise; no totals are added.
Subscribe ==
    /\ delivered = NoFrame
    /\ \E ok \in BOOLEAN, hs \in Handshakes :
         LET peers == IF metrics_cache # EmptyDict THEN metrics_cache
                      ELSE IF ok THEN DumpPeers(hs) ELSE metrics_cache
             f == IF PeerKey \in DOMAIN peers
                  THEN Frame(0, peers, Bytes(0, 0))
                  ELSE [NoFrame EXCEPT !.tick = 0]
         IN /\ metrics_cache # EmptyDict => ok
            /\ Charge(Cost(ok))
            /\ metrics_cache' = peers
            /\ delivered' = f
            /\ ret' = FrameLog(delivered, f)
    /\ UNCHANGED <<lifecycleVars, pollerVars, snap, transfer, resets, last_stats, active_sessions,
                   totals, sessions, nextSid, pass, started>>

\* One tick of broadcast_metrics with the observer connected: a forced dump
\* (a failed one answers the cache), get_all_users, and the frame of
\* total_rx + transfer_rx, total_tx + transfer_tx sent to the observer. A
\* tick whose get_all_users raises sends nothing.
Tick ==
    /\ delivered # NoFrame
    /\ delivered.tick < MaxTicks
    /\ \E ok, dbOk \in BOOLEAN, hs \in Handshakes :
         LET peers == IF ok THEN DumpPeers(hs) ELSE metrics_cache
             f == Frame(delivered.tick + 1, peers, totals)
         IN /\ Charge(Cost(ok) + Cost(dbOk))
            /\ metrics_cache' = peers
            /\ delivered' = IF dbOk THEN f ELSE [delivered EXCEPT !.tick = @ + 1]
            /\ ret' = IF dbOk THEN FrameLog(delivered, f) ELSE Quiet
    /\ UNCHANGED <<lifecycleVars, pollerVars, snap, transfer, resets, last_stats, active_sessions,
                   totals, sessions, nextSid, pass, started>>

\* The passes run one at a time here, as the first persist_to_db task.
NextFrames ==
    \/ Subscribe
    \/ Tick
    \/ StartPass(1)
    \/ Dump(1)
    \/ Select(1)
    \/ Totals(1)
    \/ AfterSession(1)
    \/ CloseDone(1)
    \/ Commit(1)
    \/ Traffic
    \/ CounterReset

SpecFrames == InitStats /\ [][NextFrames]_vars

\* ------------------------------------------------------------ SpecPoller
\* broadcast_metrics with the websockets of ConnectionManager, the handler
\* stats_websocket of each, the persistence passes it starts and
\* GET /api/users. A socket is open, lost (its client has
\* gone, the handler has not seen it yet) or closed; got says the frame of
\* the last broadcast reached its client.
Has(l, w) == \E i \in DOMAIN l : l[i] = w

\* list.remove(x): the first occurrence goes.
list_remove(l, w) ==
    LET i == CHOOSE j \in DOMAIN l : l[j] = w /\ \A m \in 1..(j - 1) : l[m] # w
    IN SubSeq(l, 1, i - 1) \o SubSeq(l, i + 1, Len(l))

\* get_connected_peers with a failed dump answering nothing.
get_connected_peers_nothing_on_failure(use_cache, ok, hs) ==
    IF use_cache /\ metrics_cache # EmptyDict THEN metrics_cache
    ELSE IF ok THEN DumpPeers(hs) ELSE EmptyDict

\* get_connected_peers: the cache when asked for and not empty, the dump
\* otherwise, the cache again when the dump fails.
get_connected_peers(use_cache, ok, hs) ==
    IF use_cache /\ metrics_cache # EmptyDict THEN metrics_cache
    ELSE IF ok THEN DumpPeers(hs) ELSE metrics_cache

\* `except Exception as e: print(...)` of broadcast_metrics: the tick is
\* over, the loop goes on to its sleep.
except_Exception(pl) == [pc |-> "sleep", start |-> <<>>, todo |-> <<>>]

PollerQuiet ==
    UNCHANGED <<lifecycleVars, delivered, snap, transfer, resets, last_stats,
                active_sessions, totals, sessions, nextSid>>

\* stats_websocket up to its receive loop: manager.connect appends the
\* socket, and the dump of get_connected_peers(use_cache=True) is sent. A
\* socket object is not met again by a broadcast that has copied it.
connect(w) ==
    /\ sockets[w].st = "closed"
    /\ ~Has(poller.start, w)
    /\ \E ok \in BOOLEAN, hs \in Handshakes :
         /\ metrics_cache # EmptyDict => ok
         /\ Charge(Cost(ok))
         /\ metrics_cache' = get_connected_peers(TRUE, ok, hs)
    /\ active_connections' = Append(active_connections, w)
    /\ sockets' = [sockets EXCEPT ![w] = [st |-> "open", got |-> FALSE]]
    /\ ret' = Quiet
    /\ PollerQuiet
    /\ UNCHANGED <<poller, pass, started>>

\* The client of a socket goes away.
ClientLeaves(w) ==
    /\ sockets[w].st = "open"
    /\ sockets' = [sockets EXCEPT ![w].st = "lost"]
    /\ ret' = Quiet
    /\ PollerQuiet
    /\ UNCHANGED <<active_connections, poller, faults, metrics_cache, pass, started>>

\* receive_text raises WebSocketDisconnect and the handler calls
\* manager.disconnect: list.remove raises ValueError when the socket is not
\* in the list.
disconnect(w) ==
    /\ sockets[w].st = "lost"
    /\ sockets' = [sockets EXCEPT ![w].st = "closed"]
    /\ IF Has(active_connections, w)
       THEN /\ active_connections' = list_remove(active_connections, w)
            /\ ret' = [op |-> "disconnect", raised |-> FALSE]
       ELSE /\ UNCHANGED active_connections
            /\ ret' = [op |-> "disconnect", raised |-> TRUE]
    /\ PollerQuiet
    /\ UNCHANGED <<poller, faults, metrics_cache, pass, started>>

\* The top of the loop of broadcast_metrics up to manager.broadcast: with
\* nobody subscribed it sleeps; otherwise the forced dump, get_all_users and
\* the frame, and broadcast copies the list. A get_all_users that raises is
\* caught by the loop.
poll ==
    /\ poller.pc = "tick"
    /\ IF active_connections = <<>>
       THEN /\ poller' = [poller EXCEPT !.pc = "sleep"]
            /\ ret' = Quiet
            /\ UNCHANGED <<faults, metrics_cache, sockets>>
       ELSE \E ok, dbOk \in BOOLEAN, hs \in Handshakes :
              LET peers == get_connected_peers(FALSE, ok, hs)
              IN /\ Charge(Cost(ok) + Cost(dbOk))
                 /\ metrics_cache' = peers
                 /\ IF dbOk
                    THEN /\ poller' = [pc |-> "broadcast", start |-> active_connections,
                                       todo |-> active_connections]
                         /\ sockets' = [w \in Sockets |-> [sockets[w] EXCEPT !.got = FALSE]]
                    ELSE /\ poller' = except_Exception(poller)
                         /\ UNCHANGED sockets
                 /\ ret' = [op |-> "tick", dumped |-> ok, built |-> dbOk,
                            cache0 |-> metrics_cache, peers |-> peers]
    /\ PollerQuiet
    /\ UNCHANGED <<active_connections, pass, started>>

\* One turn of the loop of manager.broadcast: send_json to the next socket
\* of the copy. A socket whose client is there receives the frame unless the
\* send fails; on one whose client has gone the send raises or the frame is
\* dropped, as the server has it. An exception removes the socket from the
\* list, and list.remove raises ValueError out of broadcast when it is not
\* there any more: the loop of broadcast_metrics catches it, and the rest of
\* the copy is not sent to.
send ==
    /\ poller.pc = "broadcast"
    /\ LET w == Head(poller.todo)
           rest == Tail(poller.todo)
           over == rest = <<>>
           next == IF over THEN [pc |-> "persist", start |-> <<>>, todo |-> <<>>]
                   ELSE [poller EXCEPT !.todo = rest]
           done == IF over
                   THEN [op |-> "broadcast", raised |-> FALSE, start |-> poller.start,
                         unserved |-> {}]
                   ELSE Quiet
       IN \E raises \in BOOLEAN :
            IF ~raises
            THEN /\ sockets' = IF sockets[w].st = "open"
                               THEN [sockets EXCEPT ![w].got = TRUE] ELSE sockets
                 /\ poller' = next
                 /\ ret' = done
                 /\ UNCHANGED <<active_connections, faults>>
            ELSE /\ IF sockets[w].st = "open" THEN Charge(1) ELSE UNCHANGED faults
                 /\ sockets' = IF sockets[w].st = "open"
                               THEN [sockets EXCEPT ![w].st = "lost"] ELSE sockets
                 /\ IF Has(active_connections, w)
                    THEN /\ active_connections' = list_remove(active_connections, w)
                         /\ poller' = next
                         /\ ret' = done
                    ELSE /\ UNCHANGED active_connections
                         /\ poller' = except_Exception(poller)
                         /\ ret' = [op |-> "broadcast", raised |-> TRUE,
                                    start |-> poller.start,
                                    unserved |-> {x \in Sockets : Has(rest, x)
                                                     /\ sockets[x].st = "open"}]
    /\ PollerQuiet
    /\ UNCHANGED <<metrics_cache, pass, started>>

\* After the broadcast: when 20 s have passed since the last one (due), a
\* persist_to_db task is created and not awaited. The passes run one at a
\* time here, as the first task.
persist(due) ==
    /\ poller.pc = "persist"
    /\ IF due
       THEN /\ pass[1].pc = "idle"
            /\ started < MaxPasses
            /\ started' = started + 1
            /\ SetPass(1, [IdlePass EXCEPT !.pc = "dump", !.now = started + 1,
                                           !.mem0 = last_stats, !.act0 = active_sessions])
       ELSE UNCHANGED <<pass, started>>
    /\ poller' = [poller EXCEPT !.pc = "sleep"]
    /\ ret' = Quiet
    /\ PollerQuiet
    /\ UNCHANGED <<active_connections, sockets, faults, metrics_cache>>

\* asyncio.sleep returns: the next tick starts.
wake ==
    /\ poller.pc = "sleep"
    /\ poller' = [poller EXCEPT !.pc = "tick"]
    /\ ret' = Quiet
    /\ PollerQuiet
    /\ UNCHANGED <<active_connections, sockets, faults, metrics_cache, pass, started>>

\* GET /api/users: get_connected_peers() with its default use_cache=True;
\* connected is what the answer says of the peer, live what the kernel has
\* for it when the request is served.
list_users ==
    /\ \E ok \in BOOLEAN, hs \in Handshakes :
         LET peers == get_connected_peers(TRUE, ok, hs)
         IN /\ metrics_cache # EmptyDict => ok
            /\ Charge(Cost(ok))
            /\ metrics_cache' = peers
            /\ ret' = [op |-> "list",
                       connected |-> PeerKey \in DOMAIN peers /\ peers[PeerKey].connected,
                       live |-> PeerKey \in DOMAIN kernel /\ is_connected(hs)]
    /\ PollerQuiet
    /\ UNCHANGED <<pollerVars, pass, started>>

NextPoller ==
    \/ \E w \in Sockets : connect(w)
    \/ \E w \in Sockets : ClientLeaves(w)
    \/ \E w \in Sockets : disconnect(w)
    \/ poll
    \/ send
    \/ \E due \in BOOLEAN : persist(due)
    \/ wake
    \/ Dump(1)
    \/ Select(1)
    \/ AfterSession(1)
    \/ CloseDone(1)
    \/ Commit(1)
    \/ PassFails(1)
    \/ list_users

SpecPoller == InitStats /\ [][NextPoller]_vars

\* The event loop runs every task that can run: the loop of
\* broadcast_metrics, the handler of a socket whose client has gone, and a
\* persistence pass once created; and the clock moves, so that a loop that
\* keeps coming to its test of the 20 s finds them passed. Clients, requests
\* and failures are under no obligation.
PollerFairness ==
    /\ WF_vars(poll)
    /\ WF_vars(send)
    /\ WF_vars(\E due \in BOOLEAN : persist(due))
    /\ SF_vars(persist(TRUE))
    /\ WF_vars(wake)
    /\ \A w \in Sockets : WF_vars(disconnect(w))
    /\ WF_vars(Dump(1))
    /\ WF_vars(Select(1))
    /\ WF_vars(AfterSession(1))
    /\ WF_vars(CloseDone(1))
    /\ WF_vars(Commit(1))

SpecPollerFair == SpecPoller /\ PollerFairness

\* ------------------------------------------------------------ SpecSessions
\* The poller, one observer, the passes and the toggle of the user where no
\* tool, registry or network call fails.
InitSessions ==
    /\ users = <<Row("alice", 1, 1, VPN_IP_START)>>
    /\ conf = ReconciledPeers(users)
    /\ iface = PlainHead
    /\ kernel = SyncConf(conf)
    /\ chain = ApplyAll(<<>>, get_all_users(users))
    /\ nextKey = 2
    /\ disk = NoDisk
    /\ netfilter = init_firewall_chains(NoTables)
    /\ faults = MaxFaults
    /\ ret = Quiet
    /\ snap = NoSnap
    /\ StatsQuiet
    /\ call = NoCalls

NextSessions ==
    \/ connect(1)
    \/ ClientLeaves(1)
    \/ disconnect(1)
    \/ poll
    \/ send
    \/ \E due \in BOOLEAN : persist(due)
    \/ wake
    \/ Dump(1)
    \/ Select(1)
    \/ AfterSession(1)
    \/ CloseDone(1)
    \/ Commit(1)
    \/ toggle_user_status("alice")

SpecSessions == InitSessions /\ [][NextSessions]_vars /\ PollerFairness

\* ------------------------------------------------------------ SpecSteps
\* The lifecycle handlers of users.py one awaited call at a time, a call of
\* one handle running between the steps of a call of the other. Every step
\* leaves the planes as a reader of the registry and the kernel finds them.
Stepped == [op |-> "step"]
SetCall(h, c) == call' = [call EXCEPT ![h] = c]
At(h, op, pc) == call[h].pc = pc /\ call[h].op = op
StepFrameAcl(ch) ==
    /\ ret' = Stepped
    /\ Len(ch) <= MaxRules
    /\ chain' = ch
    /\ UNCHANGED <<iface, netfilter, snap, disk, statsVars>>
StepFrame == StepFrameAcl(chain)

\* The request arrives and `await get_user_by_username(username)` answers:
\* create goes on when there is no row, the others when there is one.
begin_call(h, op) ==
    /\ call[h].pc = "idle"
    /\ (op = "create") = ~Exists(h)
    /\ \E p \in (IF op = "create" THEN Profiles ELSE {"full"}) :     \* body.acl_profile
         SetCall(h, [pc |-> "checked", op |-> op, user |-> get_user_by_username(users, h),
                     key |-> NoKey, ip |-> NoIP, profile |-> p])
    /\ StepFrame
    /\ UNCHANGED <<users, conf, kernel, nextKey, faults>>

\* generate_keypair of create_vpn_user and of rotate_user_keys.
step_generate_keypair(h) ==
    /\ call[h].pc = "checked" /\ call[h].op \in {"create", "rotate"}
    /\ nextKey <= MaxKeys
    /\ nextKey' = nextKey + 1
    /\ SetCall(h, [call[h] EXCEPT !.pc = "keyed", !.key = nextKey])
    /\ StepFrame
    /\ UNCHANGED <<users, conf, kernel, faults>>

\* create_vpn_user: used_ips = await get_used_ips(); allocate_ip(used_ips).
create_allocate(h) ==
    /\ At(h, "create", "keyed")
    /\ LET a == allocate_ip(get_used_ips(users))
       IN SetCall(h, IF a = NoIP THEN NoCall
                     ELSE [call[h] EXCEPT !.pc = "allocated", !.ip = a])
    /\ StepFrame
    /\ UNCHANGED <<users, conf, kernel, nextKey, faults>>

\* create_vpn_user: await add_peer_to_config(public_key, assigned_ip, username),
\* and apply_acl, which runs before the handler waits again.
create_add_peer(h) ==
    /\ At(h, "create", "allocated")
    /\ \E ao \in AddOutcomes :
         LET r == add_peer_to_config(Now, call[h].key, call[h].ip, h, ao[1], ao[2])
         IN /\ Charge(AddCost(ao))
            /\ SetWorld(r.w)
            /\ SetCall(h, IF r.raised THEN NoCall ELSE [call[h] EXCEPT !.pc = "added"])
            /\ StepFrameAcl(IF r.raised THEN chain
                            ELSE apply_acl(chain, call[h].ip, call[h].profile))
    /\ UNCHANGED <<users, nextKey>>

\* create_vpn_user: await create_user(...).
create_insert(h) ==
    /\ At(h, "create", "added")
    /\ \E dbOk \in BOOLEAN :
         LET row == create_user(h, call[h].key, call[h].key, call[h].ip, call[h].profile)
         IN /\ Charge(Cost(dbOk))
            /\ users' = IF dbOk /\ UniqueOk(users, row) THEN Append(users, row) ELSE users
    /\ SetCall(h, NoCall)
    /\ StepFrame
    /\ UNCHANGED <<conf, kernel, nextKey>>

\* toggle_user_status: remove_peer_from_config for an active user,
\* add_peer_to_config for a disabled one, by the row read at the start.
toggle_peer(h) ==
    /\ At(h, "toggle", "checked")
    /\ LET user == call[h].user
       IN IF user.status = "active"
          THEN \E okSet, okReload \in BOOLEAN :
                 /\ Charge(Cost(okSet) + Cost(okReload))
                 /\ SetWorld(remove_peer_from_config(Now, user.public_key, okSet, okReload))
                 /\ SetCall(h, [call[h] EXCEPT !.pc = "peer_done"])
          ELSE \E ao \in AddOutcomes :
                 LET r == add_peer_to_config(Now, user.public_key, user.assigned_ip, h,
                                             ao[1], ao[2])
                 IN /\ Charge(AddCost(ao))
                    /\ SetWorld(r.w)
                    /\ SetCall(h, IF r.raised THEN NoCall
                                  ELSE [call[h] EXCEPT !.pc = "peer_done"])
    /\ StepFrame
    /\ UNCHANGED <<users, nextKey>>

\* toggle_user_status: await update_user_status(username, new status).
toggle_update_status(h) ==
    /\ At(h, "toggle", "peer_done")
    /\ \E dbOk \in BOOLEAN :
         /\ Charge(Cost(dbOk))
         /\ users' = IF dbOk
                     THEN update_user_status(users, h,
                              IF call[h].user.status = "active" THEN "disabled" ELSE "active")
                     ELSE users
    /\ SetCall(h, NoCall)
    /\ StepFrame
    /\ UNCHANGED <<conf, kernel, nextKey>>

\* rotate_user_keys: await remove_peer_from_config(user.public_key).
rotate_remove_peer(h) ==
    /\ At(h, "rotate", "keyed")
    /\ \E okSet, okReload \in BOOLEAN :
         /\ Charge(Cost(okSet) + Cost(okReload))
         /\ SetWorld(remove_peer_from_config(Now, call[h].user.public_key, okSet, okReload))
    /\ SetCall(h, [call[h] EXCEPT !.pc = "removed"])
    /\ StepFrame
    /\ UNCHANGED <<users, nextKey>>

\* rotate_user_keys: await add_peer_to_config(public_key, user.assigned_ip).
rotate_add_peer(h) ==
    /\ At(h, "rotate", "removed")
    /\ \E ao \in AddOutcomes :
         LET r == add_peer_to_config(Now, call[h].key, call[h].user.assigned_ip,
                                     NoComment, ao[1], ao[2])
         IN /\ Charge(AddCost(ao))
            /\ SetWorld(r.w)
            /\ SetCall(h, IF r.raised THEN NoCall ELSE [call[h] EXCEPT !.pc = "added"])
    /\ StepFrame
    /\ UNCHANGED <<users, nextKey>>

\* rotate_user_keys: the update of public_key and private_key, committed.
rotate_update_keys(h) ==
    /\ At(h, "rotate", "added")
    /\ \E dbOk \in BOOLEAN :
         /\ Charge(Cost(dbOk))
         /\ users' = IF dbOk THEN UpdateKeys(users, h, call[h].key) ELSE users
    /\ SetCall(h, NoCall)
    /\ StepFrame
    /\ UNCHANGED <<conf, kernel, nextKey>>

\* delete_vpn_user: await remove_peer_from_config(user.public_key).
delete_remove_peer(h) ==
    /\ At(h, "delete", "checked")
    /\ \E okSet, okReload \in BOOLEAN :
         /\ Charge(Cost(okSet) + Cost(okReload))
         /\ SetWorld(remove_peer_from_config(Now, call[h].user.public_key, okSet, okReload))
    /\ SetCall(h, [call[h] EXCEPT !.pc = "removed"])
    /\ StepFrame
    /\ UNCHANGED <<users, nextKey>>

\* delete_vpn_user: await delete_user(username).
delete_row(h) ==
    /\ At(h, "delete", "removed")
    /\ \E dbOk \in BOOLEAN :
         /\ Charge(Cost(dbOk))
         /\ users' = IF dbOk THEN delete_user(users, h) ELSE users
    /\ SetCall(h, NoCall)
    /\ StepFrame
    /\ UNCHANGED <<conf, kernel, nextKey>>

\* The deployed system after a clean start, as in Init, with its
\* [Interface] section in place.
InitSteps ==
    /\ users \in {<<>>, <<LegacyRow>>}
    /\ conf = ReconciledPeers(users)
    /\ iface = PlainHead
    /\ kernel = SyncConf(conf)
    /\ chain = ApplyAll(<<>>, get_all_users(users))
    /\ nextKey = 1
    /\ disk = NoDisk
    /\ netfilter = init_firewall_chains(NoTables)
    /\ faults = 0
    /\ ret = Stepped
    /\ snap = NoSnap
    /\ StatsQuiet
    /\ call = NoCalls

NextSteps ==
    \/ \E h \in Handles, op \in {"create", "toggle", "rotate", "delete"} : begin_call(h, op)
    \/ \E h \in Handles : step_generate_keypair(h)
    \/ \E h \in Handles : create_allocate(h)
    \/ \E h \in Handles : create_add_peer(h)
    \/ \E h \in Handles : create_insert(h)
    \/ \E h \in Handles : toggle_peer(h)
    \/ \E h \in Handles : toggle_update_status(h)
    \/ \E h \in Handles : rotate_remove_peer(h)
    \/ \E h \in Handles : rotate_add_peer(h)
    \/ \E h \in Handles : rotate_update_keys(h)
    \/ \E h \in Handles : delete_remove_peer(h)
    \/ \E h \in Handles : delete_row(h)

SpecSteps == InitSteps /\ [][NextSteps]_vars

\* ------------------------------------------------------------ SpecCalls
\* The operations of wg.py called one at a time, each on whatever the calls
\* before it left, from a file and a kernel peer table that need not agree.
\* ret holds the arguments and the answer of the last call, snap the planes
\* before it.
CallKeys == {1, 2}
AddressOf(k) == VPN_IP_START + k - 1
Range == VPN_IP_START..VPN_IP_END
\* The files and the kernel peer tables a call can find.
Files ==
    {SelectSeq(<<Section(1, AddressOf(1), NoComment), Section(2, AddressOf(2), NoComment)>>,
               LAMBDA x : x.key \in K) : K \in SUBSET CallKeys}
Tables == {[k \in K |-> AddressOf(k)] : K \in SUBSET CallKeys}
\* The sets of used addresses allocate_ip is given: the rows of a small
\* registry, a registry that leaves few addresses free, entries out of range.
UsedSets ==
    {{}, {3}, {4}, {3, 4}, {3, 5}, {2, 255}, Range, Range \cup {2}}
        \cup {Range \ F : F \in {{3}, {254}, {253, 254}, {100, 200}}}

CallFrame == UNCHANGED <<users, iface, netfilter, nextKey, disk, statsVars, call>>

AddPeer(k) ==
    \E ao \in AddOutcomes :
        LET r == add_peer_to_config(Now, k, AddressOf(k), NoComment, ao[1], ao[2])
        IN /\ Charge(AddCost(ao))
           /\ SetWorld(r.w)
           /\ ret' = [op |-> "add_peer", key |-> k, raised |-> r.raised, wrote |-> r.wrote]
           /\ snap' = Snap("-")
           /\ UNCHANGED chain
           /\ CallFrame

RemovePeer(k) ==
    \E okSet, okReload \in BOOLEAN :
        /\ Charge(Cost(okSet) + Cost(okReload))
        /\ SetWorld(remove_peer_from_config(Now, k, okSet, okReload))
        /\ ret' = [op |-> "remove_peer", key |-> k, raised |-> FALSE,
                   clean |-> okSet /\ okReload]
        /\ snap' = Snap("-")
        /\ UNCHANGED chain
        /\ CallFrame

Allocate(used) ==
    /\ ret' = [op |-> "allocate_ip", used |-> used, ip |-> allocate_ip(used)]
    /\ snap' = Snap("-")
    /\ UNCHANGED <<conf, kernel, chain, faults>>
    /\ CallFrame

\* The connected flag get_connected_peers gives a dump line.
Classify(hs) ==
    /\ ret' = [op |-> "is_connected", hs |-> hs, connected |-> is_connected(hs)]
    /\ snap' = Snap("-")
    /\ UNCHANGED <<conf, kernel, chain, faults>>
    /\ CallFrame

InitCalls ==
    /\ users = <<>>
    /\ conf \in Files
    /\ iface = PlainHead
    /\ kernel \in Tables
    /\ chain = <<>>
    /\ nextKey = 1
    /\ disk = NoDisk
    /\ netfilter = init_firewall_chains(NoTables)
    /\ faults = 0
    /\ ret = Quiet
    /\ snap = NoSnap
    /\ StatsQuiet
    /\ call = NoCalls

NextCalls ==
    \/ \E k \in CallKeys : AddPeer(k)
    \/ \E k \in CallKeys : RemovePeer(k)
    \/ \E used \in UsedSets : Allocate(used)
    \/ \E hs \in Handshakes : Classify(hs)

SpecCalls == InitCalls /\ [][NextCalls]_vars

\* ------------------------------------------------------------ SpecAcl
\* apply_acl called again and again for two addresses, each call on the
\* chain the calls before it left.
ApplyAcl(a, p) ==
    /\ Len(apply_acl(chain, a, p)) <= MaxRules
    /\ chain' = apply_acl(chain, a, p)
    /\ ret' = [op |-> "apply_acl", ip |-> a, profile |-> p]
    /\ snap' = Snap("-")
    /\ UNCHANGED <<conf, kernel, faults>>
    /\ CallFrame

InitAcl ==
    /\ users = <<>>
    /\ conf = <<>>
    /\ iface = PlainHead
    /\ kernel = SyncConf(conf)
    /\ chain = <<>>
    /\ nextKey = 1
    /\ disk = NoDisk
    /\ netfilter = init_firewall_chains(NoTables)
    /\ faults = 0
    /\ ret = Quiet
    /\ snap = NoSnap
    /\ StatsQuiet
    /\ call = NoCalls

NextAcl == \E k \in CallKeys, p \in Profiles : ApplyAcl(AddressOf(k), p)

SpecAcl == InitAcl /\ [][NextAcl]_vars

\* ------------------------------------------------------------ SpecCreates
\* create_vpn_user for requests that arrive together, each run once, one
\* awaited call at a time: the event loop runs a step of one request between
\* two steps of another. call[r] keeps what request r held when it returned.
Requests == 1..MaxRequests
CreateFrame(ch) ==
    /\ Len(ch) <= MaxRules
    /\ chain' = ch
    /\ UNCHANGED <<iface, netfilter, disk, statsVars>>
Returned(c, stored) == [c EXCEPT !.pc = "done", !.stored = stored]

\* existing = await get_user_by_username(username); a request for a handle
\* that has a row is answered 400 there.
create_check(r, h) ==
    /\ call[r].pc = "idle"
    /\ \E p \in Profiles :
         LET c == [pc |-> "checked", h |-> h, key |-> NoKey, ip |-> NoIP,
                   profile |-> p, stored |-> FALSE]
         IN SetCall(r, IF Exists(h) THEN Returned(c, FALSE) ELSE c)
    /\ ret' = IF Exists(h) THEN [op |-> "create", refused |-> TRUE] ELSE Stepped
    /\ snap' = IF Exists(h) THEN Snap(h) ELSE snap
    /\ CreateFrame(chain)
    /\ UNCHANGED <<users, conf, kernel, nextKey, faults>>

\* private_key, public_key = await generate_keypair()
create_keypair(r) ==
    /\ call[r].pc = "checked"
    /\ \/ /\ nextKey <= MaxRequests
          /\ nextKey' = nextKey + 1
          /\ SetCall(r, [call[r] EXCEPT !.pc = "keyed", !.key = nextKey])
          /\ UNCHANGED faults
       \/ /\ Charge(1)
          /\ SetCall(r, Returned(call[r], FALSE))
          /\ UNCHANGED nextKey
    /\ ret' = Stepped
    /\ CreateFrame(chain)
    /\ UNCHANGED <<users, conf, kernel, snap>>

\* used_ips = await get_used_ips(); assigned_ip = allocate_ip(used_ips)
create_allocate_ip(r) ==
    /\ call[r].pc = "keyed"
    /\ LET a == allocate_ip(get_used_ips(users))
       IN SetCall(r, IF a = NoIP THEN Returned(call[r], FALSE)
                     ELSE [call[r] EXCEPT !.pc = "allocated", !.ip = a])
    /\ ret' = Stepped
    /\ CreateFrame(chain)
    /\ UNCHANGED <<users, conf, kernel, nextKey, faults, snap>>

\* await add_peer_to_config(public_key, assigned_ip, username), and apply_acl,
\* which runs before the handler waits again.
create_add_peer_to_config(r) ==
    /\ call[r].pc = "allocated"
    /\ \E ao \in AddOutcomes :
         LET c == call[r]
             x == add_peer_to_config(Now, c.key, c.ip, c.h, ao[1], ao[2])
         IN /\ Charge(AddCost(ao))
            /\ SetWorld(x.w)
            /\ SetCall(r, IF x.raised THEN Returned(c, FALSE) ELSE [c EXCEPT !.pc = "added"])
            /\ CreateFrame(IF x.raised THEN chain ELSE apply_acl(chain, c.ip, c.profile))
    /\ ret' = Stepped
    /\ UNCHANGED <<users, nextKey, snap>>

\* await create_user(...): the INSERT, refused by a UNIQUE column that an
\* earlier row holds; the handler answers after it.
create_create_user(r) ==
    /\ call[r].pc = "added"
    /\ \E dbOk \in BOOLEAN :
         LET c == call[r]
             row == create_user(c.h, c.key, c.key, c.ip, c.profile)
             stored == dbOk /\ UniqueOk(users, row)
         IN /\ Charge(Cost(dbOk))
            /\ users' = IF stored THEN Append(users, row) ELSE users
            /\ SetCall(r, Returned(c, stored))
    /\ ret' = [op |-> "create", refused |-> FALSE]
    /\ CreateFrame(chain)
    /\ UNCHANGED <<conf, kernel, nextKey, snap>>

InitCreates ==
    /\ users \in {<<>>, <<LegacyRow>>}
    /\ conf = ReconciledPeers(users)
    /\ iface = PlainHead
    /\ kernel = SyncConf(conf)
    /\ chain = ApplyAll(<<>>, get_all_users(users))
    /\ nextKey = 1
    /\ disk = NoDisk
    /\ netfilter = init_firewall_chains(NoTables)
    /\ faults = 0
    /\ ret = Stepped
    /\ snap = NoSnap
    /\ StatsQuiet
    /\ call = [r \in Requests |-> NoCall]

NextCreates ==
    \/ \E r \in Requests, h \in Handles : create_check(r, h)
    \/ \E r \in Requests : create_keypair(r)
    \/ \E r \in Requests : create_allocate_ip(r)
    \/ \E r \in Requests : create_add_peer_to_config(r)
    \/ \E r \in Requests : create_create_user(r)

SpecCreates == InitCreates /\ [][NextCreates]_vars

\* ------------------------------------------------------------ SpecStore
\* add_peer_to_config and remove_peer_from_config called by handlers that run
\* together, each call once, one step per stretch between two awaits: the
\* event loop runs a step of one call while another waits for a tool.
\* call[c] keeps what call c held when it returned.
\*   fd: the inode call c opened and holds locked with flock, NoFd when none.
\*   stripped: the file as `wg-quick strip` read it for the reload under way.
\*   before, after: the file just before and just after the rollback.
Callers == 1..MaxCallers
NoFd == -1
StoreCall(op, k) ==
    [pc |-> "idle", op |-> op, key |-> k, fd |-> NoFd, stripped |-> <<>>, reload |-> 0,
     raised |-> FALSE, wrote |-> FALSE, okSet |-> TRUE, synced |-> FALSE,
     rolled |-> FALSE, before |-> <<>>, after |-> <<>>]
IdleCaller == StoreCall("-", NoKey)

\* fcntl.flock(fd, LOCK_EX) on a descriptor opened for inode i returns when no
\* other open descriptor holds a lock on i.
LockFree(i) == \A d \in Callers : call[d].fd # i

\* The answer of a call as the handler sees it.
StoreRet(c) ==
    [op |-> c.op, key |-> c.key, raised |-> c.raised, wrote |-> c.wrote,
     okSet |-> c.okSet, synced |-> c.synced]
\* finally: flock(fd, LOCK_UN); os.close(fd)
Unlocked(c) == [c EXCEPT !.pc = "done", !.fd = NoFd]

StoreFrame == UNCHANGED <<users, iface, chain, netfilter, nextKey, snap, statsVars>>

\* add_peer_to_config up to its first await: open, flock, read, the check
\* for a duplicate, the backup, the append, the rename over wg0.conf (the
\* path names a new inode from then on; the lock stays on the old one).
add_peer_write(c, k) ==
    /\ call[c].pc = "idle"
    /\ LockFree(disk.inode)
    /\ LET me == StoreCall("add_peer", k)
           w == AddWrite(World(conf, disk.bak, kernel), k, AddressOf(k), NoComment)
       IN IF KeyInContent(conf, k)
          THEN /\ SetCall(c, Unlocked([me EXCEPT !.raised = TRUE]))
               /\ ret' = StoreRet([me EXCEPT !.raised = TRUE])
               /\ UNCHANGED <<conf, disk>>
          ELSE /\ SetCall(c, [me EXCEPT !.pc = "strip", !.fd = disk.inode,
                                        !.reload = 1, !.wrote = TRUE])
               /\ conf' = w.conf
               /\ disk' = [bak |-> w.bak, inode |-> c]
               /\ ret' = Stepped
    /\ UNCHANGED <<kernel, faults>>
    /\ StoreFrame

\* remove_peer_from_config: await run_command(wg set wg0 peer k remove); the
\* exit code is not looked at.
remove_peer_kernel(c, k) ==
    /\ call[c].pc = "idle"
    /\ \E okSet \in BOOLEAN :
         /\ Charge(Cost(okSet))
         /\ kernel' = IF okSet THEN KernelRemove(kernel, k) ELSE kernel
         /\ SetCall(c, [StoreCall("remove_peer", k) EXCEPT !.pc = "file", !.okSet = okSet])
    /\ ret' = Stepped
    /\ UNCHANGED <<conf, disk>>
    /\ StoreFrame

\* remove_peer_from_config from its open to its next await: flock, read,
\* return when the key is not in the file, else filter, rename over wg0.conf.
remove_peer_rewrite(c) ==
    /\ call[c].pc = "file"
    /\ LockFree(disk.inode)
    /\ IF ~KeyInContent(conf, call[c].key)
       THEN /\ SetCall(c, Unlocked(call[c]))
            /\ ret' = StoreRet(call[c])
            /\ UNCHANGED <<conf, disk>>
       ELSE /\ SetCall(c, [call[c] EXCEPT !.pc = "strip", !.fd = disk.inode,
                                          !.reload = 1, !.wrote = TRUE])
            /\ conf' = SelectSeq(conf, LAMBDA x : x.key # call[c].key)
            /\ disk' = [disk EXCEPT !.inode = c]
            /\ ret' = Stepped
    /\ UNCHANGED <<kernel, faults>>
    /\ StoreFrame

\* What a call does when its reload_wireguard has answered, up to its next
\* await or its return: add_peer_to_config returns after a first reload that
\* succeeded, copies the backup over the file and reloads again after one
\* that failed, and raises after the second; remove_peer_from_config returns.
AfterReload(c, success) ==
    LET me == [call[c] EXCEPT !.synced = success]
    IN IF me.op = "add_peer" /\ me.reload = 1 /\ ~success
       THEN [call |-> [me EXCEPT !.pc = "strip", !.reload = 2, !.rolled = TRUE,
                                 !.before = conf, !.after = disk.bak],
             conf |-> disk.bak, ret |-> Stepped]
       ELSE LET out == [me EXCEPT !.raised = (me.op = "add_peer" /\ me.reload = 2)]
            IN [call |-> Unlocked(out), conf |-> conf, ret |-> StoreRet(out)]

\* reload_wireguard: await run_command(wg-quick strip wg0.conf), which reads
\* the file as it is then.
wg_quick_strip(c) ==
    /\ call[c].pc = "strip"
    /\ \E ok \in BOOLEAN :
         LET next == AfterReload(c, FALSE)
         IN /\ Charge(Cost(ok))
            /\ IF ok
               THEN /\ SetCall(c, [call[c] EXCEPT !.pc = "syncconf", !.stripped = conf])
                    /\ ret' = Stepped
                    /\ UNCHANGED conf
               ELSE /\ SetCall(c, next.call)
                    /\ ret' = next.ret
                    /\ conf' = next.conf
    /\ UNCHANGED <<kernel, disk>>
    /\ StoreFrame

\* reload_wireguard: await run_command(wg syncconf wg0 tmp) with the stripped
\* text.
wg_syncconf(c) ==
    /\ call[c].pc = "syncconf"
    /\ \E ok \in BOOLEAN :
         LET next == AfterReload(c, ok)
         IN /\ Charge(Cost(ok))
            /\ kernel' = IF ok THEN SyncConf(call[c].stripped) ELSE kernel
            /\ SetCall(c, next.call)
            /\ ret' = next.ret
            /\ conf' = next.conf
    /\ UNCHANGED disk
    /\ StoreFrame

\* A file and a kernel peer table as the calls before left them, in step.
InitStore ==
    /\ users = <<>>
    /\ conf \in Files
    /\ iface = PlainHead
    /\ kernel = SyncConf(conf)
    /\ chain = <<>>
    /\ nextKey = 1
    /\ disk = NoDisk
    /\ netfilter = init_firewall_chains(NoTables)
    /\ faults = 0
    /\ ret = Stepped
    /\ snap = NoSnap
    /\ StatsQuiet
    /\ call = [c \in Callers |-> IdleCaller]

NextStore ==
    \/ \E c \in Callers, k \in CallKeys : add_peer_write(c, k)
    \/ \E c \in Callers, k \in CallKeys : remove_peer_kernel(c, k)
    \/ \E c \in Callers : remove_peer_rewrite(c)
    \/ \E c \in Callers : wg_quick_strip(c)
    \/ \E c \in Callers : wg_syncconf(c)

SpecStore == InitStore /\ [][NextStore]_vars

\* ------------------------------------------------------------ SpecReconcile
\* The heads a start-up can find: none, the installed one, one an operator
\* has edited (a comment in front, blank lines around, a blank line and a
\* comment inside), one whose header line is lost, one that is only a comment.
Heads ==
    {NoHead, PlainHead,
     <<"# wg0", "[Interface]", "ListenPort = 51820">>,
     <<"", "[Interface]", "ListenPort = 51820", "">>,
     <<"[Interface]", "ListenPort = 51820", "", "# nat", "PostUp = nat.sh">>,
     <<"ListenPort = 51820">>,
     <<"# wg0">>}
\* The registries a start-up can find: the rows of up to two users, each
\* active or disabled.
Registries ==
    {SelectSeq(<<[Row("alice", 1, 1, AddressOf(1)) EXCEPT !.status = s[1]],
                 [Row("bob", 2, 2, AddressOf(2)) EXCEPT !.status = s[2]]>>,
               LAMBDA r : r.status # "-") : s \in [{1, 2} -> {"active", "disabled", "-"}]}

InitReconcile ==
    /\ users \in Registries
    /\ conf \in Files
    /\ iface \in Heads
    /\ kernel \in Tables
    /\ chain = <<>>
    /\ nextKey = 1
    /\ disk = NoDisk
    /\ netfilter \in {NoTables, init_firewall_chains(NoTables)}
    /\ faults = 0
    /\ ret = Quiet
    /\ snap = NoSnap
    /\ StatsQuiet
    /\ call = NoCalls

NextReconcile ==
    \/ lifespan
    \/ KernelRemoveByHand
    \/ KernelInjectByHand

SpecReconcile == InitReconcile /\ [][NextReconcile]_vars

\* ------------------------------------------------------------ Spec: properties
ActiveRows == {i \in DOMAIN users : users[i].status = "active"}
ActiveKeySet == {users[i].public_key : i \in ActiveRows}
\* The kernel peer table the registry asks for: each active key with its /32.
ActivePeerTable ==
    [k \in ActiveKeySet |->
        users[CHOOSE i \in ActiveRows : users[i].public_key = k].assigned_ip]

\* C1: after every lifecycle call that has returned, with success or with an
\* error, the keys of the file's peer sections are the keys of the active rows.
C1_FileKeysAreActiveKeys == ConfKeys(conf) = ActiveKeySet

C5_FailedCreateLeavesNoPeer ==
    (ret.op \in {"create", "register"} /\ ~ret.ok /\ ret.wrote)
        => (ret.key \notin ConfKeys(conf) /\ ret.key \notin DOMAIN kernel)

\* C6: a sync_all in which no tool failed puts back into the kernel, with its
\* address, every active peer that had its section in the file and was missing
\* from the kernel; and when file and kernel already matched the active set it
\* changes nothing and reports no error.
C6_SyncAllRestoresAndIsQuietNoOp ==
    (ret.op = "sync_all" /\ ret.clean) =>
        /\ \A i \in ActiveRows :
               (users[i].public_key \in ConfKeys(snap.conf)
                    /\ users[i].public_key \notin DOMAIN snap.kernel)
               => /\ users[i].public_key \in DOMAIN kernel
                  /\ kernel[users[i].public_key] = users[i].assigned_ip
        /\ (ConfKeys(snap.conf) = ActiveKeySet /\ snap.kernel = ActivePeerTable)
               => (conf = snap.conf /\ kernel = snap.kernel /\ ret.ok)

Observed(w, h) ==
    LET u == get_user_by_username(w.users, h)
    IN [status |-> u.status,
        in_file |-> u.public_key \in ConfKeys(w.conf),
        in_kernel |-> u.public_key \in DOMAIN w.kernel,
        rules |-> RulesOf(w.chain, u.assigned_ip)]

\* Two toggles of one handle have gone through, one directly after the other.
ToggledTwice ==
    ret.op = "toggle" /\ ret.ok /\ ret.clean /\ snap.h \in Handles /\ snap.twice

C12_SecondReconcileChangesNothing ==
    (ret.op = "startup" /\ ret.clean /\ snap.twice)
        => (conf = snap.conf /\ kernel = snap.kernel)

\* Two runs in a row over a registry with an active and a disabled peer.
C12_Witness ==
    /\ ret.op = "startup" /\ ret.clean /\ snap.twice
    /\ ActiveKeySet # {}
    /\ ActiveRows # DOMAIN users

\* The call left file sections and kernel peers as it found them.
StoreUntouched == conf = snap.conf /\ kernel = snap.kernel

\* The row of the handle a call worked on, before the call and after it.
RowBefore == get_user_by_username(snap.users, snap.h)
RowAfter == get_user_by_username(users, snap.h)

\* C17: a rotate that succeeds leaves the old key in neither the file nor the
\* kernel, the new key in both with the peer's address, and the new pair in
\* the registry; a rotate that returns an error leaves registry, file and
\* kernel with the old key as they had it, and without the new one.
C17_RotateAllOrNothing ==
    (ret.op = "rotate" /\ snap.h \in Handles) =>
        IF ret.ok
        THEN /\ RowBefore.public_key \notin ConfKeys(conf) \cup DOMAIN kernel
             /\ ret.key \in ConfKeys(conf) \cap DOMAIN kernel
             /\ kernel[ret.key] = RowBefore.assigned_ip
             /\ RowAfter = [RowBefore EXCEPT !.public_key = ret.key, !.private_key = ret.key]
        ELSE /\ RowAfter = RowBefore
             /\ (RowBefore.public_key \in ConfKeys(conf))
                    = (RowBefore.public_key \in ConfKeys(snap.conf))
             /\ (RowBefore.public_key \in DOMAIN kernel)
                    = (RowBefore.public_key \in DOMAIN snap.kernel)
             /\ ret.key \notin ConfKeys(conf) \cup DOMAIN kernel

\* C18: get_user_config for a row with a stored private key changes no plane
\* and answers with the stored key; for a row without one, a call that
\* succeeds leaves a new pair stored, so that the calls after it find a stored
\* key and rotate nothing.
C18_ArtifactKeepsStoredKey ==
    (ret.op = "config" /\ snap.h \in Handles) =>
        /\ RowBefore.private_key # NoKey =>
               /\ users = snap.users /\ StoreUntouched /\ chain = snap.chain
               /\ ret.key = RowBefore.private_key
        /\ (RowBefore.private_key = NoKey /\ ret.ok) =>
               /\ ret.key # NoKey
               /\ RowAfter.private_key = ret.key
               /\ RowAfter.public_key = ret.key

\* A call for a row whose pair an earlier call of get_user_config stored.
C18_Witness ==
    /\ ret.op = "config" /\ snap.h \in Handles /\ ret.ok
    /\ RowBefore.private_key # NoKey
    /\ RowBefore.username = LegacyRow.username
    /\ RowBefore.public_key # LegacyKey

\* The rules of a sequence, as a set.
RuleSet(rs) == {rs[i] : i \in DOMAIN rs}

\* C19: after every completed lifecycle call and after startup, the chain
\* holds rules keyed on an address exactly when that address is assigned to an
\* active row, and they are the rules of that row's profile.
C19_ChainTracksActivePeers ==
    /\ \A n \in DOMAIN chain :
           \E i \in ActiveRows : users[i].assigned_ip = chain[n].src
    /\ \A i \in ActiveRows :
           RuleSet(RulesOf(chain, users[i].assigned_ip))
               = RuleSet(ProfileRules(users[i].assigned_ip, users[i].acl_profile))

\* ------------------------------------------------------------ SpecCalls: properties
\* C13: add_peer_to_config for a key that has its section in the file raises
\* and leaves the file and the kernel peer table as they were: no rewrite, no
\* sync of the kernel to the file.
C13_AddOfPresentKeyIsRefused ==
    (ret.op = "add_peer" /\ ret.key \in ConfKeys(snap.conf))
        => (ret.raised /\ ~ret.wrote /\ StoreUntouched)

\* The refused call found a kernel peer table that a sync would have changed.
C13_Witness ==
    /\ ret.op = "add_peer" /\ ret.key \in ConfKeys(snap.conf)
    /\ snap.kernel # SyncConf(snap.conf)

\* C14: remove_peer_from_config for a key that is in neither the file nor the
\* kernel returns without raising and leaves both as they were.
C14_RemoveOfAbsentKeyIsNoOp ==
    (ret.op = "remove_peer" /\ ret.key \notin ConfKeys(snap.conf)
        /\ ret.key \notin DOMAIN snap.kernel)
        => (~ret.raised /\ StoreUntouched)

\* The call found a kernel peer table that a sync would have changed.
C14_Witness ==
    /\ ret.op = "remove_peer" /\ ret.key \notin ConfKeys(snap.conf)
    /\ ret.key \notin DOMAIN snap.kernel
    /\ snap.kernel # SyncConf(snap.conf)

StatedRules(a, p) ==
    IF p = "internet-only"
    THEN <<Rule(a, "server", "ACCEPT"), Rule(a, PRIVATE_NETWORKS[1], "DROP"),
           Rule(a, PRIVATE_NETWORKS[2], "DROP"), Rule(a, PRIVATE_NETWORKS[3], "DROP"),
           Rule(a, "any", "ACCEPT")>>
    ELSE ProfileRules(a, p)

\* C20: after apply_acl(a, p), whatever rules keyed on a the chain held, it
\* holds for a exactly the rules of profile p, each once, the trailing rule
\* last.
C20_ApplyLeavesExactlyTheProfile ==
    ret.op = "apply_acl" =>
        LET rs == RulesOf(chain, ret.ip)
            stated == StatedRules(ret.ip, ret.profile)
        IN /\ Len(rs) = Len(stated)
           /\ RuleSet(rs) = RuleSet(stated)
           /\ rs[Len(rs)] = stated[Len(stated)]

\* Where a packet of a peer can be destined: the server's tunnel address
\* (VPN_SERVER_IP, 10.50.0.1), another address of one of the private
\* networks (named by the network), or an address outside all of them.
Destinations == {"server", "internet"} \cup Nets
\* -d of a rule matches destination d; 10.50.0.1 lies in 10.0.0.0/8.
DstMatches(dst, d) ==
    \/ dst = "any"
    \/ dst = d
    \/ d = "server" /\ dst = PRIVATE_NETWORKS[1]
\* The target of the first rule of the chain that matches a packet from a to
\* d; a packet no rule matches returns to the calling chain.
Verdict(ch, a, d) ==
    LET hits == {n \in DOMAIN ch : ch[n].src = a /\ DstMatches(ch[n].dst, d)}
    IN IF hits = {} THEN "RETURN"
       ELSE ch[CHOOSE n \in hits : \A m \in hits : n <= m].target
\* What is stated for a packet of a peer with profile p destined to d.
StatedVerdict(p, d) ==
    IF p = "full" THEN "ACCEPT"
    ELSE IF p = "internet-only" THEN (IF d \in Nets THEN "DROP" ELSE "ACCEPT")
    ELSE IF d = "internet" THEN "DROP" ELSE "ACCEPT"

\* C21: under first-match evaluation of the chain apply_acl(a, p) leaves, a
\* packet from a is accepted for profile full; for internet-only accepted to
\* the server's tunnel address, dropped to any other address of the three
\* private networks, accepted otherwise; for intranet-only accepted to the
\* three private networks and dropped otherwise.
C21_FirstMatchVerdictIsTheProfile ==
    ret.op = "apply_acl" =>
        \A d \in Destinations : Verdict(chain, ret.ip, d) = StatedVerdict(ret.profile, d)

\* intranet-only applied for an address whose chain still holds an accept to
\* the server address from an earlier internet-only, next to another
\* address's rules.
C21_Witness ==
    /\ ret.op = "apply_acl" /\ ret.profile = "intranet-only"
    /\ Rule(ret.ip, "server", "ACCEPT") \in RuleSet(chain)
    /\ \E n \in DOMAIN chain : chain[n].src # ret.ip

\* ------------------------------------------------------------ SpecCreates: properties
\* The keys that returned create requests for handle h generated.
KeysMadeFor(h) ==
    {call[r].key : r \in {x \in Requests : call[x].pc = "done" /\ call[x].h = h}} \ {NoKey}
NoneInFlight == \A r \in Requests : call[r].pc \in {"idle", "done"}

\* A create for a handle that has a row is refused and leaves registry, file,
\* kernel and filter rules as they were.
RefusedCreateChangesNothing ==
    (ret.op = "create" /\ ret.refused)
        => (users = snap.users /\ StoreUntouched /\ chain = snap.chain)

\* No two rows of the registry share a handle.
HandlesUnique ==
    \A i, j \in DOMAIN users : users[i].username = users[j].username => i = j

\* C22: a create for a handle that has a row is refused and changes no plane;
\* and when create calls for one handle interleave, once they have returned
\* at most one of the keys they generated is in the file, at most one in the
\* kernel, and no two rows share the handle.
C22_DuplicateCreateLeavesOnePeer ==
    /\ RefusedCreateChangesNothing
    /\ HandlesUnique
    /\ NoneInFlight =>
           \A h \in Handles :
               /\ Cardinality(KeysMadeFor(h) \cap ConfKeys(conf)) <= 1
               /\ Cardinality(KeysMadeFor(h) \cap DOMAIN kernel) <= 1

\* C40: when create calls interleave, no two peer sections of the file carry
\* the same address, and no section carries the address of a registry row of
\* a different key.
C40_NoAddressGivenTwice ==
    /\ \A i, j \in DOMAIN conf : conf[i].ip = conf[j].ip => i = j
    /\ \A i \in DOMAIN conf : \A j \in DOMAIN users :
           conf[i].ip = users[j].assigned_ip => conf[i].key = users[j].public_key

\* ------------------------------------------------------------ SpecStore: properties
\* C25: when the kernel sync fails after add_peer_to_config(k, a) has written
\* the file, the rollback leaves the file as it was just before the rollback
\* less the section of k, whatever other call ran since the write: it takes
\* away the section of k, takes away no section another call added and puts
\* back no section another call removed; and the call raises.
C25_RollbackRemovesOnlyItsSection ==
    /\ \A c \in Callers :
           call[c].rolled =>
               call[c].after = SelectSeq(call[c].before, LAMBDA x : x.key # call[c].key)
    /\ \A c \in Callers : (call[c].pc = "done" /\ call[c].rolled) => call[c].raised

\* The calls that hold a descriptor locked: they are between their open and
\* their unlock.
InLockedSection == {c \in Callers : call[c].fd # NoFd}

\* C26: at most one call of the store is inside its locked read-modify-write
\* and sync section at a time.
C26_OneCallInLockedSection == Cardinality(InLockedSection) <= 1

\* C27: when remove_peer_from_config(k) returns, its kernel removal having
\* succeeded and no other call having added k, k is in neither the file nor
\* the kernel, whatever ran between its kernel removal and its rewrite and
\* whether or not its final sync succeeded.
C27_RemovedPeerIsGone ==
    (ret.op = "remove_peer" /\ ret.okSet
        /\ \A d \in Callers : ~(call[d].op = "add_peer" /\ call[d].key = ret.key))
        => (ret.key \notin ConfKeys(conf) /\ ret.key \notin DOMAIN kernel)

\* ------------------------------------------------------------ SpecStats: properties
ActiveSessionsOf(k) ==
    {id \in DOMAIN sessions : sessions[id].public_key = k /\ sessions[id].is_active}

\* C7: for every peer the session store holds at most one session with the
\* active flag set, across passes that overlap and across a restart of the
\* process.
C7_AtMostOneActiveSession ==
    \A i \in DOMAIN users : Cardinality(ActiveSessionsOf(users[i].public_key)) <= 1

\* C8: the persisted total_rx and total_tx of a peer never decrease, whatever
\* the kernel counters do between two passes.
C8_TotalsNeverDecrease ==
    [][totals'.rx >= totals.rx /\ totals'.tx >= totals.tx]_vars

\* A pass has committed the counters it read after a reset: they were smaller
\* than the remembered ones, and the totals had been above zero before.
C8_Witness ==
    /\ ret.op = "pass" /\ ret.ok
    /\ 0 < ret.cur.rx /\ ret.cur.rx < ret.last.rx
    /\ ret.before.rx > 0
    /\ transfer.rx = ret.cur.rx

\* The amount a pass adds for a remembered counter and a current one.
ExpectedDelta(c, l) == IF c >= l THEN c - l ELSE c

\* C9: a pass that commits adds C - L to the persisted total when C >= L and C
\* when C < L, L being the remembered counter (0 when none) and C the counter
\* it read, and the remembered counter becomes C; after 1,000,000 then 50,000
\* the total grows by exactly 50,000.
C9_DeltaArithmetic ==
    /\ (ret.op = "pass" /\ ret.ok) =>
          /\ ret.after.rx - ret.before.rx = ExpectedDelta(ret.cur.rx, ret.last.rx)
          /\ ret.after.tx - ret.before.tx = ExpectedDelta(ret.cur.tx, ret.last.tx)
          /\ (ret.last.rx = 1000000 /\ ret.cur.rx = 50000)
                 => ret.after.rx = ret.before.rx + 50000
    /\ ret.op = "remember" => ret.remembered = ret.cur

\* The pass after the drop from 1,000,000 to 50,000 has committed.
C9_Witness ==
    /\ ret.op = "pass" /\ ret.ok
    /\ ret.last.rx = 1000000 /\ ret.cur.rx = 50000
    /\ ret.before.rx = 1000000
    /\ transfer.rx = 50000

\* A pass that committed found its peer connected while the table held no
\* open session: the table holds one now.
ConnectedPeerGetsSession ==
    (ret.op = "pass" /\ ret.ok /\ ret.connected /\ ret.open_before = {})
        => \E i \in DOMAIN users : ActiveSessionsOf(users[i].public_key) # {}

\* A pass that committed did not find its peer connected: every session that
\* was open is closed, its end_time the time of the pass.
DisconnectedPeerIsClosed ==
    (ret.op = "pass" /\ ret.ok /\ ~ret.connected)
        => \A id \in ret.open_before :
               ~sessions[id].is_active /\ sessions[id].end_time = ret.now

\* C23: on a persistence pass a peer that is connected and has no open
\* session gets a new open session, and a peer with an open session that is
\* not connected in that pass, or is missing from the dump, has that session
\* closed with end_time the pass time and the active flag cleared; with the
\* window of 300 s a handshake 100 s old is connected and one 400 s old is not.
C23_SessionsOpenAndClose ==
    /\ ConnectedPeerGetsSession
    /\ DisconnectedPeerIsClosed
    /\ is_connected([seen |-> TRUE, age |-> 100])
    /\ ~is_connected([seen |-> TRUE, age |-> 400])

\* A pass that committed had opened a session: the session holds the deltas
\* of that pass.
OpenedSessionHoldsItsFirstDelta ==
    (ret.op = "pass" /\ ret.ok /\ ret.opened # 0)
        => sessions[ret.opened].bytes = ret.add

\* A pass that committed found its peer connected with a session open, and
\* the row of that session in the table: the session has grown by the deltas
\* of that pass.
OpenSessionGrowsByTheDelta ==
    (ret.op = "pass" /\ ret.ok /\ ret.upd \in DOMAIN ret.rows)
        => sessions[ret.upd].bytes = Bytes(ret.rows[ret.upd].bytes.rx + ret.add.rx,
                                           ret.rows[ret.upd].bytes.tx + ret.add.tx)

\* C33: the bytes_rx and bytes_tx of a session are the sum of the deltas of its
\* peer over the passes during which it was open, the pass that opened it
\* included.
C33_SessionBytesAreTheDeltas ==
    /\ OpenedSessionHoldsItsFirstDelta
    /\ OpenSessionGrowsByTheDelta

\* The passes that have computed their deltas and not yet returned.
Computed == {p \in PassIds : pass[p].pc \notin {"idle", "dump", "select"}}

\* C36: when a pass is still running while the next one runs, every increase
\* of a kernel counter is added to the totals once: no two passes hold the
\* delta of the same increase to add, and no two have opened a session.
C36_OverlappingPassesAddOnce ==
    \A p, q \in Computed :
        p # q =>
            /\ ~(/\ pass[p].last = pass[q].last /\ pass[p].cur = pass[q].cur
                  /\ pass[p].add = pass[q].add /\ pass[p].add # Bytes(0, 0))
            /\ ~(pass[p].opened # 0 /\ pass[q].opened # 0)

\* ------------------------------------------------------------ SpecSerial: properties
\* A pass that failed leaves _last_stats and _active_sessions as they were
\* when it started.
FailedPassLeavesMemory ==
    (ret.op = "pass" /\ ~ret.ok)
        => (last_stats = ret.mem0 /\ active_sessions = ret.act0)

\* While no pass runs, every entry of _active_sessions names a row of the
\* table.
OpenSessionMapNamesRows ==
    pass[1].pc = "idle" =>
        \A k \in DOMAIN active_sessions : active_sessions[k] \in DOMAIN sessions

\* A pass has committed and the kernel counters were never reset: the totals
\* are no less than the counters the pass read, whatever failed before it.
NothingLost ==
    (ret.op = "pass" /\ ret.ok /\ resets = 0)
        => (totals.rx >= ret.cur.rx /\ totals.tx >= ret.cur.tx)

\* C37: a pass that fails before its commit leaves the remembered counters
\* and the open-session map as they were before it, so that the next pass
\* that succeeds adds the deltas the failed one did not persist, and the map
\* names only rows of the table.
C37_FailedPassLeavesMemory ==
    /\ FailedPassLeavesMemory
    /\ NothingLost
    /\ OpenSessionMapNamesRows

\* C38: with the remembered counters lost at a restart and the kernel counters
\* never reset, a pass that commits leaves totals no larger than the bytes
\* the kernel has counted.
C38_RestartAddsNothingTwice ==
    (ret.op = "pass" /\ ret.ok /\ resets = 0)
        => (totals.rx <= transfer.rx /\ totals.tx <= transfer.tx)

\* ------------------------------------------------------------ SpecFrames: properties
\* The frames an observer is sent come in the order of the ticks.
FramesInTickOrder ==
    (ret.op = "frame" /\ ret.prev # NoFrame) => ret.cur.tick > ret.prev.tick

\* C24: an observer receives the frames in the order of the poller's ticks,
\* and the transfer_rx and transfer_tx of the peer never decrease from one
\* frame it is sent to the next.
C24_FramesOrderedAndNonDecreasing ==
    /\ FramesInTickOrder
    /\ (ret.op = "frame" /\ ret.prev.has /\ ret.cur.has) =>
           /\ ret.cur.rx >= ret.prev.rx
           /\ ret.cur.tx >= ret.prev.tx

\* ------------------------------------------------------------ SpecReconcile: properties
\* The interface block of a head: its lines from the [Interface] header to the
\* last line that is not blank; none when the head has no header.
InterfaceBlock(h) ==
    LET at == {i \in DOMAIN h : h[i] = "[Interface]"}
        ink == {i \in DOMAIN h : h[i] # ""}
    IN IF at = {} THEN <<>>
       ELSE SubSeq(h, CHOOSE i \in at : \A j \in at : i <= j,
                      CHOOSE i \in ink : \A j \in ink : j <= i)
\* The rows of the registry before the run that are active.
ActiveBefore == {i \in DOMAIN snap.users : snap.users[i].status = "active"}

\* C28: a reconciler run leaves the registry as it was and the interface
\* block of the file as it was; when it rewrites the file, the file is that
\* interface block followed by one section per active row of the registry,
\* with the row's key and address.
C28_ReconcilerKeepsRegistryAndInterface ==
    ret.op = "startup" =>
        /\ users = snap.users
        /\ InterfaceBlock(iface) = InterfaceBlock(snap.iface)
        /\ ret.wrote =>
               /\ iface = InterfaceBlock(snap.iface)
               /\ Len(conf) = Cardinality(ActiveBefore)
               /\ \A i \in ActiveBefore :
                      \E j \in DOMAIN conf :
                          /\ conf[j].key = snap.users[i].public_key
                          /\ conf[j].ip = snap.users[i].assigned_ip

\* A run over a registry with an active and a disabled row rewrote a file
\* whose head held more than the interface block and whose sections differed.
C28_Witness ==
    /\ ret.op = "startup" /\ ret.wrote
    /\ snap.iface # iface
    /\ snap.conf # conf
    /\ ActiveBefore # {}
    /\ ActiveBefore # DOMAIN snap.users

\* C29: when the file has no interface section, the file after a reconciler
\* run is the file before it.
C29_NoInterfaceNoRewrite ==
    (ret.op = "startup" /\ InterfaceBlock(snap.iface) = <<>>)
        => (iface = snap.iface /\ conf = snap.conf)

\* A run with no tool failure over a file with lines but no interface section,
\* whose sections are not those of the active rows, that changed the kernel.
C29_Witness ==
    /\ ret.op = "startup" /\ ret.clean
    /\ InterfaceBlock(snap.iface) = <<>> /\ snap.iface # <<>>
    /\ ConfKeys(snap.conf) # {snap.users[i].public_key : i \in ActiveBefore}
    /\ kernel # snap.kernel

\* No chain holds a rule twice.
NoRuleTwice ==
    \A c \in DOMAIN netfilter :
        \A i, j \in DOMAIN netfilter[c] : netfilter[c][i] = netfilter[c][j] => i = j

\* C30: init_firewall_chains run over tables that hold the rules of an
\* earlier run leaves every chain as it was, and no chain with a rule twice.
C30_SecondInstallChangesNothing ==
    /\ NoRuleTwice
    /\ (ret.op = "startup" /\ snap.netfilter # NoTables) => netfilter = snap.netfilter

\* C39: the cumulative value a frame shows for the peer, stored total plus
\* kernel counter, counts every byte once: while the kernel counters have
\* never been reset it is no more than the bytes the kernel has counted.
C39_ShownTransferCountsOnce ==
    (ret.op = "frame" /\ ret.cur.has /\ resets = 0)
        => (ret.cur.rx <= transfer.rx /\ ret.cur.tx <= transfer.tx)

\* ------------------------------------------------------------ SpecPoller: properties
\* A broadcast that is over raised nothing, and every socket of its copy
\* whose client is still there has received the frame.
BroadcastServesTheList ==
    ret.op = "broadcast"
        => /\ ~ret.raised
           /\ \A w \in Sockets :
                (Has(ret.start, w) /\ sockets[w].st = "open") => sockets[w].got

\* manager.disconnect raises nothing.
DisconnectNeverRaises == ret.op = "disconnect" => ~ret.raised

\* C31: broadcast sends the frame to every subscriber of the list as it is
\* when the broadcast starts; neither a failing send nor a subscriber that
\* disconnects meanwhile keeps the frame from the remaining subscribers or
\* raises an error out of broadcast or out of disconnect.
C31_BroadcastReachesEverySubscriber == BroadcastServesTheList /\ DisconnectNeverRaises

\* C35: GET /api/users reports a peer connected only if, when the request is
\* served, the kernel has the peer with a handshake younger than the
\* liveness window.
C35_ListReportsLiveState == (ret.op = "list" /\ ret.connected) => ret.live

\* A tick whose dump failed builds its frame from the telemetry cached before.
FailedDumpSendsTheCache ==
    (ret.op = "tick" /\ ~ret.dumped /\ ret.built) => ret.peers = ret.cache0

\* C32: no failure inside a tick (dump, registry read, send, persistence)
\* ends the loop of the poller, a later tick always follows; and the frame
\* of a tick whose dump failed carries the last cached telemetry.
C32_PollerNeverStops == [](FailedDumpSendsTheCache) /\ []<>(poller.pc = "tick")

\* A tick has built its frame after a failed dump, with telemetry cached.
C32_Witness ==
    ret.op = "tick" /\ ~ret.dumped /\ ret.built /\ ret.cache0 # EmptyDict

\* ------------------------------------------------------------ SpecSessions: properties
\* The table holds a session with the active flag set; the kernel does not
\* have the peer (it was disabled).
OpenSession == \E id \in DOMAIN sessions : sessions[id].is_active
PeerGone == PeerKey \notin DOMAIN kernel

\* C34: under a fair scheduler an open session whose peer has stopped being
\* live is eventually closed (active flag cleared, end_time set), whether an
\* observer is subscribed or not. Stated for a peer that is disabled and
\* stays so, at a time when the passes of the behaviour are not used up.
C34_StaleSessionIsClosed ==
    (PeerGone /\ OpenSession /\ started < MaxPasses) ~> (~OpenSession \/ ~PeerGone)

\* ------------------------------------------------------------ SpecSteps: properties
\* C4: at every moment, also between the steps of a create, toggle or rotate
\* still in progress, the key of every active registry row is in the kernel
\* peer table (a row whose delete is in progress is left aside).
C4_ActiveRowsAreInKernel ==
    \A i \in DOMAIN users :
        (users[i].status = "active"
            /\ ~(call[users[i].username].pc # "idle" /\ call[users[i].username].op = "delete"))
        => users[i].public_key \in DOMAIN kernel

====
